---- MODULE Spec2Model ----
(***************************************************************************)
(* wis2watch: the MQTT fleet supervisor (mqtt/service.py), the per-node    *)
(* client (mqtt/client.py) and the Celery tasks (mqtt/tasks.py).           *)
(*                                                                         *)
(* The module holds several specifications over one set of variables:      *)
(*   SpecIngest  the message processor and the observation table           *)
(* Variables a specification does not use keep their initial value.        *)
(***************************************************************************)
EXTENDS Integers, Sequences, FiniteSets, TLC

VARIABLES
    observations,   \* rows of StationMQTTMessageLog
    nextRowId,      \* the table's primary-key sequence
    stationTable,   \* wigos ids of the rows of Station
    celeryTasks,    \* published process_mqtt_message(_batch) tasks not yet run
    taskSeq,        \* number of tasks published so far
    workerTask,     \* per worker: the process_mqtt_message call between its SELECT and its INSERT
    prepareLog,     \* what the last task run did per message: lookups, syncs, outcome
    cache,          \* shared Django cache: per node the entry under mqtt_node_{id}_lock
    clients,        \* per supervisor instance: MQTTMonitoringService.clients
    liveSessions,   \* per instance and node: paho network loops started and not stopped
    threads,        \* per worker thread: the supervisor call it is inside
    startQueue,     \* published start_mqtt_monitoring tasks not yet run
    nodeTable,      \* rows of WIS2Node
    flushedBatches, \* batches handed to process_mqtt_message_batch.delay, in order
    retired,        \* the client stopped last, as disconnect() left it
    monitorLog,     \* the line monitor_all_active_nodes logged last
    last_run_at,    \* Celery beat: when each periodic job last ran
    netThread,      \* paho's network thread: the callback it is inside
    now,            \* the clock, in seconds
    cliClients,     \* core/mqtt_client.py MQTTMonitoringService.clients of the mqtt_monitor command
    locals,         \* what the threads inside one client's methods hold outside its lock
    activeTopics,   \* wmo_topic_hierarchy of the node's Dataset rows with status 'active'
    outage,         \* which fan-out services raise: the cache backend, the channel layer
    report          \* the dict get_health_report builds and returns

ingestVars == <<observations, nextRowId, stationTable, celeryTasks, taskSeq, workerTask,
               prepareLog>>

\* What neither the supervisor nor a client writes.
sideVars == <<cliClients, activeTopics, locals, outage, report>>

supVarsButSide == <<cache, clients, liveSessions, threads, startQueue, nodeTable,
                    flushedBatches, retired, monitorLog, last_run_at, netThread, now>>

supVars == <<supVarsButSide, sideVars>>

vars == <<observations, nextRowId, stationTable, celeryTasks, taskSeq, workerTask,
          prepareLog,
          cache, clients, liveSessions, threads, startQueue, nodeTable, flushedBatches,
          retired, monitorLog, last_run_at, netThread, now, cliClients,
          activeTopics, locals, outage, report>>

None == "None"

\* Python's None where a record is expected.
NoRecord == [message_id |-> "", station |-> "", dataset |-> "", time |-> ""]

(***************************************************************************)
(* Bounds                                                                  *)
(***************************************************************************)
MaxBatchLen == 2     \* longest batch a client hands over in SpecIngest
MaxTasks == 2        \* tasks published in one behaviour of SpecIngest

(***************************************************************************)
(* Message processor: mqtt/tasks.py                                        *)
(***************************************************************************)
Workers == {"worker1", "worker2"}

\* Payloads the broker delivers: id, properties.wigos_station_identifier,
\* properties.metadata_id, properties.datetime ("" is an absent field).
Payloads ==
    { [id |-> "m1", wigos |-> "w1", metadata |-> "ds1", datetime |-> "2025-01-15T10:00:00Z"],
      [id |-> "m2", wigos |-> "w1", metadata |-> "ds1", datetime |-> "2025-01-15T10:00:00Z"],
      [id |-> "m1", wigos |-> "w2", metadata |-> "ds1", datetime |-> "2025-01-15T10:00:00Z"],
      [id |-> "",   wigos |-> "w1", metadata |-> "ds1", datetime |-> "2025-01-15T10:00:00Z"],
      [id |-> "m2", wigos |-> "w1", metadata |-> "dsX", datetime |-> "2025-01-15T10:00:00Z"] }

\* Payloads without a usable properties.datetime: absent, and not ISO 8601.
UndatedPayloads ==
    { [id |-> "m2", wigos |-> "w1", metadata |-> "ds1", datetime |-> ""],
      [id |-> "m2", wigos |-> "w1", metadata |-> "ds1", datetime |-> "yesterday"] }

\* Dataset rows (identifier) and the stations the node's stations endpoint lists.
DatasetTable == {"ds1"}
RemoteStations == {"w1", "w2"}

\* WIS2Node ids; the node whose client published the messages (message_data['node_id']).
Nodes == {1}
TheNode == CHOOSE n \in Nodes : TRUE
InitialStations == {"w1"}

BatchesOf(payloads) == UNION { [1..n -> payloads] : n \in 1..MaxBatchLen }

Batches == BatchesOf(Payloads)

\* sync_metadata(node_id): a successful sync upserts every station the endpoint
\* lists and deletes none; a failed one returns (None, exc) and raises nothing.
SyncMetadata(stations, ok) == IF ok THEN stations \cup RemoteStations ELSE stations

\* _prepare_observation_record lines 228-236: properties.get('datetime') through
\* datetime.fromisoformat(dt_str.replace('Z', '+00:00')); an absent field skips
\* the parse and a ValueError is logged, both leave observation_datetime = None.
ParseDatetime(dt_str) ==
    IF dt_str = "" THEN None
    ELSE IF dt_str = "2025-01-15T10:00:00Z" THEN "2025-01-15T10:00:00+00:00"
    ELSE None

\* What one call of _prepare_observation_record did: Station.objects.get calls,
\* sync_metadata calls, whether the station row exists when it returns, and
\* whether it returned a record.
PrepareLogEntry(payload, missed, lookups, syncs, after, made) ==
    [id |-> payload.id, wigos |-> payload.wigos, metadata |-> payload.metadata,
     datetime |-> payload.datetime, raised |-> FALSE,
     missed |-> missed, lookups |-> lookups, syncs |-> syncs,
     present |-> payload.wigos \in after, made |-> made]

\* _prepare_observation_record without the sync fallback of lines 203-214.
PrepareWithoutSync(payload, stations, syncOk) ==
    LET hit == payload.wigos \in stations
        ok == /\ payload.id # "" /\ payload.wigos # "" /\ payload.metadata # ""
              /\ hit /\ payload.metadata \in DatasetTable
    IN  [record |-> IF ok THEN [message_id |-> payload.id, station |-> payload.wigos,
                                dataset |-> payload.metadata, time |-> ParseDatetime(payload.datetime)]
                    ELSE NoRecord,
         stations |-> stations,
         log |-> PrepareLogEntry(payload, ~hit, 1, 0, stations, ok)]

\* _prepare_observation_record: the unsaved record, or None; with the Station
\* table after the sync fallback.
PrepareObservationRecord(payload, stations, syncOk) ==
    IF payload.id = "" \/ payload.wigos = "" \/ payload.metadata = ""
    THEN [record |-> NoRecord, stations |-> stations,
          log |-> PrepareLogEntry(payload, FALSE, 0, 0, stations, FALSE)]
    ELSE LET missed == payload.wigos \notin stations
             after == IF missed THEN SyncMetadata(stations, syncOk) ELSE stations
             lookups == IF missed THEN 2 ELSE 1
             syncs == IF missed THEN 1 ELSE 0
         IN  IF payload.wigos \notin after
             THEN [record |-> NoRecord, stations |-> after,
                   log |-> PrepareLogEntry(payload, missed, lookups, syncs, after, FALSE)]
             ELSE IF payload.metadata \notin DatasetTable
                  THEN [record |-> NoRecord, stations |-> after,
                        log |-> PrepareLogEntry(payload, missed, lookups, syncs, after, FALSE)]
                  ELSE [record |-> [message_id |-> payload.id,
                                    station |-> payload.wigos,
                                    dataset |-> payload.metadata,
                                    time |-> ParseDatetime(payload.datetime)],
                        stations |-> after,
                        log |-> PrepareLogEntry(payload, missed, lookups, syncs, after, TRUE)]

\* The loop of process_mqtt_message_batch ending at the first record that
\* cannot be prepared.
RECURSIVE PrepareUntilFailure(_, _, _, _, _)
PrepareUntilFailure(batch, k, stations, syncOk, raises) ==
    IF k > Len(batch)
    THEN [records |-> <<>>, stations |-> stations, logs |-> <<>>]
    ELSE LET one == PrepareObservationRecord(batch[k], stations, syncOk[k])
             rest == PrepareUntilFailure(batch, k + 1, one.stations, syncOk, raises)
         IN  IF raises[k] \/ one.record = NoRecord
             THEN [records |-> <<>>, stations |-> one.stations,
                   logs |-> [j \in 1..(Len(batch) - k + 1) |->
                                [PrepareLogEntry(batch[k + j - 1], FALSE, 0, 0, one.stations,
                                                 FALSE) EXCEPT !.raised = raises[k + j - 1]]]]
             ELSE [records |-> <<one.record>> \o rest.records,
                   stations |-> rest.stations,
                   logs |-> <<one.log>> \o rest.logs]

\* The loop of process_mqtt_message_batch over batch_data (lines 298-305);
\* raises[k]: preparing item k raises (a database error in a lookup), which the
\* loop logs before it goes on with the next item.
RECURSIVE PrepareBatch(_, _, _, _, _)
PrepareBatch(batch, k, stations, syncOk, raises) ==
    IF k > Len(batch)
    THEN [records |-> <<>>, stations |-> stations, logs |-> <<>>]
    ELSE IF raises[k]
    THEN LET rest == PrepareBatch(batch, k + 1, stations, syncOk, raises)
         IN  [records |-> rest.records,
              stations |-> rest.stations,
              logs |-> <<[PrepareLogEntry(batch[k], FALSE, 1, 0, stations, FALSE)
                             EXCEPT !.raised = TRUE]>> \o rest.logs]
    ELSE LET one == PrepareObservationRecord(batch[k], stations, syncOk[k])
             rest == PrepareBatch(batch, k + 1, one.stations, syncOk, raises)
         IN  [records |-> IF one.record = NoRecord THEN rest.records
                          ELSE <<one.record>> \o rest.records,
              stations |-> rest.stations,
              logs |-> <<one.log>> \o rest.logs]

\* sync_discovery_metadata, what it writes to the WIS2Node row: status 'active'
\* when the catalogue was read (lines 151-155), 'error' when anything raised
\* (lines 172-178); a row that does not exist is not written.
SyncNodeStatus(cfg, ok) ==
    IF ~cfg.exists THEN cfg
    ELSE [cfg EXCEPT !.status = IF ok THEN "active" ELSE "error"]

\* The WIS2Node table after the sync_metadata calls of the prepared items;
\* discoveryOk[k]: the discovery half of the sync of item k succeeded (the
\* stations half, which fails without touching the row, runs after it).
RECURSIVE NodesAfterSyncs(_, _, _, _)
NodesAfterSyncs(table, logs, k, discoveryOk) ==
    IF k > Len(logs) THEN table
    ELSE NodesAfterSyncs(IF logs[k].syncs > 0
                         THEN [table EXCEPT ![TheNode] = SyncNodeStatus(@, discoveryOk[k])]
                         ELSE table,
                         logs, k + 1, discoveryOk)

\* StationMQTTMessageLog (core/models.py 234-249) declares no Meta, no
\* unique_together and no UniqueConstraint: the primary key is its only
\* unique index.
ObservationUniqueKeys == {{"id"}}

Conflicts(row, table) ==
    \E r \in table : \E key \in ObservationUniqueKeys : \A f \in key : r[f] = row[f]

MakeRow(record, id) ==
    [id |-> id, message_id |-> record.message_id, station |-> record.station,
     dataset |-> record.dataset, time |-> record.time]

\* bulk_create(records, ignore_conflicts=True): INSERT ... ON CONFLICT DO NOTHING,
\* one row per record, in order.
RECURSIVE BulkCreate(_, _, _, _)
BulkCreate(records, k, table, id) ==
    IF k > Len(records)
    THEN [table |-> table, nextId |-> id]
    ELSE LET row == MakeRow(records[k], id)
         IN  IF Conflicts(row, table)
             THEN BulkCreate(records, k + 1, table, id + 1)
             ELSE BulkCreate(records, k + 1, table \cup {row}, id + 1)

MatchingRows(record, table) ==
    {r \in table : r.message_id = record.message_id /\ r.station = record.station}

max_retries == 3

\* self.retry(exc=e): the task is published again until max_retries is used up.
Retry(task, tasks) ==
    IF task.retries < max_retries
    THEN tasks \cup {[task EXCEPT !.retries = @ + 1]}
    ELSE tasks

\* MQTTNodeClient._flush_buffer: process_mqtt_message_batch.delay(batch)
PublishBatch(batch) ==
    /\ taskSeq < MaxTasks
    /\ taskSeq' = taskSeq + 1
    /\ celeryTasks' = celeryTasks \cup
           {[seq |-> taskSeq + 1, kind |-> "batch", batch |-> batch, retries |-> 0]}
    /\ UNCHANGED <<observations, nextRowId, stationTable, workerTask, prepareLog>>
    /\ UNCHANGED supVars

\* process_mqtt_message.delay(node_id, topic, payload, timestamp)
PublishSingle(payload) ==
    /\ taskSeq < MaxTasks
    /\ taskSeq' = taskSeq + 1
    /\ celeryTasks' = celeryTasks \cup
           {[seq |-> taskSeq + 1, kind |-> "single", batch |-> <<payload>>, retries |-> 0]}
    /\ UNCHANGED <<observations, nextRowId, stationTable, workerTask, prepareLog>>
    /\ UNCHANGED supVars

\* process_mqtt_message_batch, run by one worker; dbError: the INSERT raises.
ProcessMqttMessageBatch(task, syncOk, raises, dbError) ==
    /\ task \in celeryTasks
    /\ task.kind = "batch"
    /\ LET prep == PrepareBatch(task.batch, 1, stationTable, syncOk, raises)
           done == BulkCreate(prep.records, 1, observations, nextRowId)
       IN  /\ stationTable' = prep.stations
           /\ prepareLog' = [kind |-> "batch", items |-> prep.logs,
                             stored |-> prep.records = <<>> \/ ~dbError]
           /\ IF prep.records = <<>>
              THEN /\ celeryTasks' = celeryTasks \ {task}
                   /\ UNCHANGED <<observations, nextRowId>>
              ELSE IF dbError
                   THEN /\ celeryTasks' = Retry(task, celeryTasks \ {task})
                        /\ UNCHANGED <<observations, nextRowId>>
                   ELSE /\ celeryTasks' = celeryTasks \ {task}
                        /\ observations' = done.table
                        /\ nextRowId' = done.nextId
           /\ \E stationsFail \in BOOLEAN :
                  nodeTable' = NodesAfterSyncs(nodeTable, prep.logs, 1,
                                   [k \in 1..MaxBatchLen |-> syncOk[k] \/ stationsFail])
    /\ UNCHANGED <<taskSeq, workerTask>>
    /\ UNCHANGED <<cache, clients, liveSessions, threads, startQueue, flushedBatches,
                   retired, monitorLog, last_run_at, netThread, now, sideVars>>

\* process_mqtt_message up to the SELECT of get_or_create.
ProcessMqttMessageGet(w, task, syncOk) ==
    /\ workerTask[w] = NoRecord
    /\ task \in celeryTasks
    /\ task.kind = "single"
    /\ LET prep == PrepareObservationRecord(task.batch[1], stationTable, syncOk)
           found == IF prep.record = NoRecord THEN {} ELSE MatchingRows(prep.record, observations)
       IN  /\ stationTable' = prep.stations
           /\ prepareLog' = [kind |-> "single", items |-> <<prep.log>>, stored |-> FALSE]
           /\ IF prep.record = NoRecord \/ Cardinality(found) = 1
              THEN /\ celeryTasks' = celeryTasks \ {task}
                   /\ UNCHANGED workerTask
              ELSE IF Cardinality(found) > 1
                   \* MultipleObjectsReturned -> self.retry
                   THEN /\ celeryTasks' = Retry(task, celeryTasks \ {task})
                        /\ UNCHANGED workerTask
                   ELSE /\ celeryTasks' = celeryTasks \ {task}
                        /\ workerTask' = [workerTask EXCEPT ![w] = prep.record]
           /\ \E stationsFail \in BOOLEAN :
                  nodeTable' = NodesAfterSyncs(nodeTable, <<prep.log>>, 1,
                                   <<syncOk \/ stationsFail>>)
    /\ UNCHANGED <<observations, nextRowId, taskSeq>>
    /\ UNCHANGED <<cache, clients, liveSessions, threads, startQueue, flushedBatches,
                   retired, monitorLog, last_run_at, netThread, now, sideVars>>

\* The INSERT of get_or_create.
ProcessMqttMessageCreate(w) ==
    /\ workerTask[w] # NoRecord
    /\ LET row == MakeRow(workerTask[w], nextRowId)
       IN  /\ observations' = IF Conflicts(row, observations) THEN observations
                              ELSE observations \cup {row}
           /\ nextRowId' = nextRowId + 1
    /\ workerTask' = [workerTask EXCEPT ![w] = NoRecord]
    /\ UNCHANGED <<stationTable, celeryTasks, taskSeq, prepareLog>>
    /\ UNCHANGED supVars

(***************************************************************************)
(* Node client: mqtt/client.py.  A client is a record; every operator      *)
(* below is one lock-protected section or one call of MQTTNodeClient,      *)
(* applied to the record at time t (seconds).                              *)
(***************************************************************************)
NoTime == -1

\* Nothing under the status key, nothing sent yet.
NoStatusData ==
    [state |-> "none", previous_state |-> None, is_connected |-> FALSE,
     message_count |-> 0, error_count |-> 0]
NoStatusPayload == [state |-> "none", is_connected |-> FALSE, message_count |-> 0]

\* No thread is inside a method of the client.
NoLocals == [current_time |-> 0, batch |-> <<>>, status_data |-> NoStatusData]
IdleLocals == [th \in {"callback", "stop"} |-> NoLocals]

\* Topics of the node's datasets; the ones active before any discovery sync.
Topics == {"origin/a/wis2/xx/data/synop", "origin/a/wis2/xx/data/temp"}
InitialTopics == {"origin/a/wis2/xx/data/synop"}

MaxErrors == 1       \* error transitions a client makes under the supervisor specifications

\* MQTTNodeClient.__init__; session is paho's side: "none" (no network loop),
\* "connecting", "up", "refused" (CONNACK with a non-zero reason code).
\* _setup_client line 123: f"wis2watch_node_{node_id}_{int(datetime.now().timestamp())}",
\* t being the clock in whole seconds.
ClientId(n, t) == <<"wis2watch_node", n, t>>

\* status_cache is what the cache holds under mqtt_node_{id}_status, status_sent the
\* last status_update and ws_emitted the arrival times of the message_received
\* events this client sent to the mqtt_status group.
NewClient(n, t, topics) ==
    [client_id |-> ClientId(n, t), topics |-> topics, state |-> "disconnected", previous_state |-> None, state_changed_at |-> t,
     is_connected |-> FALSE, session |-> "none",
     connection_attempts |-> 0, successful_connections |-> 0, failed_connections |-> 0,
     message_count |-> 0, last_message_time |-> NoTime,
     messages_per_minute |-> 0, message_times |-> <<>>,
     message_buffer |-> <<>>, last_batch_flush |-> t,
     last_status_update |-> t, last_ws_broadcast |-> t,
     status_cache |-> NoStatusData, status_sent |-> NoStatusPayload, ws_emitted |-> <<>>,
     last_error |-> None, error_count |-> 0]

\* _update_status lines 291-321: the snapshot built under the lock.
StatusData(c) ==
    [state |-> c.state, previous_state |-> c.previous_state,
     is_connected |-> c.state = "connected",
     message_count |-> c.message_count, error_count |-> c.error_count]

\* _update_status without its cache.set.
KeepCachedStatus(c) == c

\* No service the fan-out writes to is failing.
NoOutage == [cache |-> FALSE, channel |-> FALSE]

\* _update_status with its cache.set outside the try of lines 323-326: the
\* exception reaches the caller, which counts an error.
UpdateStatusUncaught(c) ==
    IF outage.cache THEN [c EXCEPT !.error_count = @ + 1]
    ELSE [c EXCEPT !.status_cache = StatusData(c)]

\* _update_status: build the snapshot, cache.set it; a cache.set that raises is
\* logged (lines 323-326).
UpdateStatus(c) ==
    IF outage.cache THEN c ELSE [c EXCEPT !.status_cache = StatusData(c)]

\* _broadcast_status: the status_update sent to the mqtt_status group; a
\* group_send that raises is logged (lines 352-353).
BroadcastStatus(c) ==
    IF outage.channel THEN c
    ELSE [c EXCEPT !.status_sent = [state |-> c.state, is_connected |-> c.is_connected,
                                    message_count |-> c.message_count]]

\* _change_state recording the time spent in the state it leaves instead of now().
ChangeStateRecordsElapsed(c, new_state, error, t) ==
    LET c1 == [c EXCEPT !.previous_state = c.state, !.state = new_state,
                        !.state_changed_at = t - c.state_changed_at]
        c2 == IF error = None THEN c1
              ELSE [c1 EXCEPT !.last_error = error, !.error_count = @ + 1]
    IN  BroadcastStatus(UpdateStatus(c2))

\* _change_state: everything under the client's lock, the cache.set and the
\* group_send included.
ChangeState(c, new_state, error, t) ==
    LET c1 == [c EXCEPT !.previous_state = c.state, !.state = new_state,
                        !.state_changed_at = t]
        c2 == IF error = None THEN c1
              ELSE [c1 EXCEPT !.last_error = error, !.error_count = @ + 1]
    IN  BroadcastStatus(UpdateStatus(c2))

GetConnectionErrorMessage(rc) ==
    CASE rc = 1 -> "Connection refused - incorrect protocol version"
      [] rc = 2 -> "Connection refused - invalid client identifier"
      [] rc = 3 -> "Connection refused - server unavailable"
      [] rc = 4 -> "Connection refused - bad username or password"
      [] rc = 5 -> "Connection refused - not authorized"
      [] OTHER -> "Connection failed with code " \o ToString(rc)

GetDisconnectErrorMessage(rc) ==
    CASE rc = 1 -> "Disconnected - unacceptable protocol version"
      [] rc = 2 -> "Disconnected - identifier rejected"
      [] rc = 3 -> "Disconnected - server unavailable"
      [] rc = 4 -> "Disconnected - bad authentication"
      [] rc = 5 -> "Disconnected - not authorized"
      [] rc = 7 -> "Disconnected - no matching subscribers"
      [] OTHER -> "Disconnected with code " \o ToString(rc)

\* Reason codes the broker answers with in the model.
ReasonCodes == {0, 5}

\* connect(): connect_async raises ValueError for an empty host.
Connect(c, host, t) ==
    LET c1 == ChangeState(c, "connecting", None, t)
        c2 == [c1 EXCEPT !.connection_attempts = @ + 1]
    IN  IF host # ""
        THEN [client |-> [c2 EXCEPT !.session = "connecting"], ok |-> TRUE]
        ELSE [client |-> ChangeState([c2 EXCEPT !.failed_connections = @ + 1], "error",
                                     "Configuration error: Invalid host.", t),
              ok |-> FALSE]

\* _on_connect that sets the flag and counts nothing.
OnConnectUncounted(c, rc) ==
    [c EXCEPT !.is_connected = (rc = 0), !.session = IF rc = 0 THEN "up" ELSE "refused"]

\* _on_connect, first locked section (lines 146-149, 165-167).
OnConnectFlags(c, rc) ==
    IF rc = 0
    THEN [c EXCEPT !.is_connected = TRUE, !.successful_connections = @ + 1, !.session = "up"]
    ELSE [c EXCEPT !.is_connected = FALSE, !.failed_connections = @ + 1, !.session = "refused"]

\* _on_connect, the state change (lines 158, 169).
OnConnectChange(c, rc, t) ==
    IF rc = 0 THEN ChangeState(c, "connected", None, t)
    ELSE ChangeState(c, "error", GetConnectionErrorMessage(rc), t)

OnConnect(c, rc, t) == OnConnectChange(OnConnectFlags(c, rc), rc, t)

\* _on_disconnect without line 178.
OnDisconnectKeepsFlag(c) == [c EXCEPT !.session = "connecting"]

\* _on_disconnect, the locked section (lines 177-183); paho reconnects by itself.
OnDisconnectFlags(c) == [c EXCEPT !.is_connected = FALSE, !.session = "connecting"]

\* _on_disconnect, lines 185-191; stopping is what the unlocked read of
\* self.state at line 185 returned.
OnDisconnectChange(c, stopping, rc, t) ==
    IF stopping THEN ChangeState(c, "disconnected", None, t)
    ELSE ChangeState(c, "error",
                     IF rc # 0 THEN GetDisconnectErrorMessage(rc)
                     ELSE "Unexpected disconnect (rc=0)", t)

OnDisconnect(c, rc, t) ==
    LET c1 == OnDisconnectFlags(c) IN OnDisconnectChange(c1, c1.state = "stopping", rc, t)

\* _flush_buffer: the swap under the lock and the batch handed to Celery.
FlushBuffer(c, t) ==
    IF c.message_buffer = <<>>
    THEN [client |-> c, batch |-> <<>>]
    ELSE [client |-> [c EXCEPT !.message_buffer = <<>>, !.last_batch_flush = t],
          batch |-> c.message_buffer]

\* disconnect(), lines 431-438: loop_stop, client.disconnect, the flags.
CloseSession(c) ==
    [c EXCEPT !.session = "none", !.is_connected = FALSE, !.message_times = <<>>]

\* disconnect() without its last _change_state.
DisconnectLeftStopping(c, t) ==
    CloseSession(ChangeState(FlushBuffer(c, t).client, "stopping", None, t))

\* disconnect() with no callback running in between.
Disconnect(c, t) ==
    LET c1 == FlushBuffer(c, t).client
        c2 == ChangeState(c1, "stopping", None, t)
        c3 == CloseSession(c2)
    IN  ChangeState(c3, "disconnected", None, t)

is_healthy(c, t) ==
    IF ~c.is_connected THEN FALSE
    ELSE IF c.message_count > 0 /\ c.last_message_time # NoTime
            /\ t - c.last_message_time > 600 THEN FALSE
    ELSE IF c.state = "connecting" /\ t - c.state_changed_at > 120 THEN FALSE
    ELSE TRUE

(***************************************************************************)
(* Fleet supervisor: mqtt/service.py, and the tasks of mqtt/tasks.py that  *)
(* drive it.  One MQTTMonitoringService per worker process (instance).     *)
(***************************************************************************)
Instances == {"A", "B"}
ThreadIds == {"A1", "A2", "B1"}
InstanceOf(th) == IF th \in {"A1", "A2"} THEN "A" ELSE "B"

LOCK_TIMEOUT == 600      \* seconds

NoLock == [owner |-> None, ttl |-> 0]
IdleThread == [pc |-> "idle", node |-> 0, todo |-> {}, retries |-> 0]
IdleNet == [pc |-> "idle", rc |-> 0, stopping |-> FALSE]

\* WIS2Node rows: exists, status, mqtt_host.
NodeConfigs ==
    { [exists |-> TRUE,  status |-> "active",   host |-> "broker.example"],
      [exists |-> TRUE,  status |-> "active",   host |-> ""],
      [exists |-> TRUE,  status |-> "inactive", host |-> "broker.example"],
      [exists |-> FALSE, status |-> "inactive", host |-> ""] }

\* No client has been stopped yet.
NoSummary ==
    [by |-> None, state |-> None, previous_state |-> None, is_connected |-> FALSE,
     session |-> "none", buffered |-> 0, client_id |-> ClientId(0, 0)]

\* dict operations on self.clients
Put(f, k, v) == [x \in DOMAIN f \cup {k} |-> IF x = k THEN v ELSE f[x]]
Del(f, k) == [x \in DOMAIN f \ {k} |-> f[x]]

\* node_id in self.clients
Running(i, n) == n \in DOMAIN clients[i]

\* _acquire_lock: always returns True; a lock of another owner is overwritten.
AcquireLock(locks, i, n) ==
    IF locks[n] # NoLock /\ locks[n].owner = i
    THEN locks
    ELSE [locks EXCEPT ![n] = [owner |-> i, ttl |-> LOCK_TIMEOUT]]

\* A _release_lock that deletes nothing.
ReleaseNothing(locks, n) == locks

\* _release_lock: cache.delete
ReleaseLock(locks, n) == [locks EXCEPT ![n] = NoLock]

\* _refresh_lock: cache.set with owner = self and the full timeout
RefreshLock(locks, i, n) == [locks EXCEPT ![n] = [owner |-> i, ttl |-> LOCK_TIMEOUT]]

\* A client object that was stopped reads is_connected = False from then on:
\* refresh_all_locks calls holding it in their snapshot skip it.
ForgetSnapshot(ths, i, n) ==
    [th \in ThreadIds |->
        IF InstanceOf(th) = i /\ ths[th].pc = "refresh"
        THEN [ths[th] EXCEPT !.todo = @ \ {n}]
        ELSE ths[th]]

\* What the model keeps of a client object once it is out of the map, and the
\* supervisor call that stopped it.
Summary(c, by) ==
    [by |-> by, state |-> c.state, previous_state |-> c.previous_state,
     is_connected |-> c.is_connected, session |-> c.session,
     buffered |-> Len(c.message_buffer), client_id |-> c.client_id]

\* _stop_node_internal: disconnect the client and delete it from the map.
StopNodeInternal(i, n, by) ==
    IF n \in DOMAIN clients[i]
    THEN LET c == clients[i][n]
             batch == FlushBuffer(c, now).batch
         IN  /\ clients' = [clients EXCEPT ![i] = Del(@, n)]
             /\ liveSessions' = [liveSessions EXCEPT ![i][n] =
                                    IF c.session # "none" THEN @ - 1 ELSE @]
             /\ flushedBatches' = IF batch = <<>> THEN flushedBatches
                                  ELSE Append(flushedBatches, batch)
             /\ retired' = Summary(Disconnect(c, now), by)
    ELSE UNCHANGED <<clients, liveSessions, flushedBatches, retired>>

\* stop_node
StopNode(th, n) ==
    LET i == InstanceOf(th) IN
    /\ threads[th].pc = "idle"
    /\ StopNodeInternal(i, n, "stop_node")
    /\ cache' = ReleaseLock(cache, n)
    /\ threads' = ForgetSnapshot(threads, i, n)
    /\ UNCHANGED <<startQueue, nodeTable, monitorLog, last_run_at>>
    /\ UNCHANGED <<ingestVars, sideVars, netThread, now>>

\* start_node up to the mutex: _acquire_lock and the WIS2Node lookup (lines 92-105)
StartAcquire(th, n, retries) ==
    LET i == InstanceOf(th)
        held == AcquireLock(cache, i, n)
    IN  IF nodeTable[n].exists
        THEN /\ cache' = held
             /\ threads' = [threads EXCEPT ![th] =
                               [pc |-> "start_clients", node |-> n, todo |-> {},
                                retries |-> retries]]
        ELSE /\ cache' = ReleaseLock(held, n)
             /\ threads' = [threads EXCEPT ![th] = IdleThread]

\* start_mqtt_monitoring picked up by a worker
StartTask(th, task) ==
    /\ threads[th].pc = "idle"
    /\ task \in startQueue
    /\ startQueue' = startQueue \ {task}
    /\ StartAcquire(th, task.node, task.retries)
    /\ UNCHANGED <<clients, liveSessions, nodeTable, flushedBatches, retired, monitorLog, last_run_at>>
    /\ UNCHANGED <<ingestVars, sideVars, netThread, now>>

\* restart_node, first half: stop_node (restart_mqtt_monitoring retries on
\* exceptions only, so the start that follows is not published again)
RestartStop(th, n) ==
    LET i == InstanceOf(th) IN
    /\ threads[th].pc = "idle"
    /\ StopNodeInternal(i, n, "restart_node")
    /\ cache' = ReleaseLock(cache, n)
    /\ threads' = [ForgetSnapshot(threads, i, n) EXCEPT ![th] =
                      [pc |-> "restart_start", node |-> n, todo |-> {}, retries |-> max_retries]]
    /\ UNCHANGED <<startQueue, nodeTable, monitorLog, last_run_at>>
    /\ UNCHANGED <<ingestVars, sideVars, netThread, now>>

\* restart_node, second half: start_node
RestartStart(th) ==
    /\ threads[th].pc = "restart_start"
    /\ StartAcquire(th, threads[th].node, max_retries)
    /\ UNCHANGED <<clients, liveSessions, startQueue, nodeTable, flushedBatches, retired, monitorLog, last_run_at>>
    /\ UNCHANGED <<ingestVars, sideVars, netThread, now>>

\* start_node without lines 110-112.
KeepExisting(cl, n) == cl

\* start_node lines 110-112: stop the existing client, if any
StopExisting(cl, n) == IF n \in DOMAIN cl THEN Del(cl, n) ELSE cl

\* start_node under the mutex (lines 108-137) and what start_mqtt_monitoring
\* does with the result (ConnectionError is retried automatically).
StartClients(th) ==
    LET i == InstanceOf(th)
        n == threads[th].node
        old == clients[i]
        stopped == StopExisting(old, n)
        closed == IF n \in DOMAIN old /\ n \notin DOMAIN stopped
                     /\ old[n].session # "none" THEN 1 ELSE 0
        batch == IF n \in DOMAIN old /\ n \notin DOMAIN stopped
                 THEN FlushBuffer(old[n], now).batch ELSE <<>>
        new == Connect(NewClient(n, now, activeTopics), nodeTable[n].host, now)
        task == [node |-> n, retries |-> threads[th].retries + 1]
    IN  /\ threads[th].pc = "start_clients"
        /\ flushedBatches' = IF batch = <<>> THEN flushedBatches
                             ELSE Append(flushedBatches, batch)
        /\ retired' = IF n \in DOMAIN old /\ n \notin DOMAIN stopped
                      THEN Summary(Disconnect(old[n], now), "start_node")
                      ELSE retired
        /\ IF new.ok
           THEN /\ clients' = [clients EXCEPT ![i] = Put(stopped, n, new.client)]
                /\ liveSessions' = [liveSessions EXCEPT ![i][n] = @ - closed + 1]
                /\ UNCHANGED <<cache, startQueue>>
           ELSE /\ clients' = [clients EXCEPT ![i] = stopped]
                /\ liveSessions' = [liveSessions EXCEPT ![i][n] = @ - closed]
                /\ cache' = ReleaseLock(cache, n)
                /\ startQueue' = IF threads[th].retries < max_retries
                                 THEN startQueue \cup {task} ELSE startQueue
        /\ threads' = [ForgetSnapshot(threads, i, n) EXCEPT ![th] = IdleThread]
        /\ UNCHANGED <<nodeTable, monitorLog, last_run_at>>
        /\ UNCHANGED <<ingestVars, sideVars, netThread, now>>

\* refresh_all_locks: the snapshot taken under the mutex (lines 205-206)
RefreshAllLocksBegin(th) ==
    LET i == InstanceOf(th) IN
    /\ threads[th].pc = "idle"
    /\ threads' = [threads EXCEPT ![th] =
                      IF DOMAIN clients[i] = {} THEN IdleThread
                      ELSE [pc |-> "refresh", node |-> 0, todo |-> DOMAIN clients[i],
                            retries |-> 0]]
    /\ last_run_at' = [last_run_at EXCEPT !.refresh = now]
    /\ UNCHANGED <<cache, clients, liveSessions, startQueue, nodeTable, flushedBatches, retired, monitorLog>>
    /\ UNCHANGED <<ingestVars, sideVars, netThread, now>>

\* refresh_all_locks lines 210-211: which clients of the snapshot get their lock refreshed
ShouldRefresh(c) == c.is_connected

\* refresh_all_locks: one iteration of the loop (lines 208-214)
RefreshOne(th, n) ==
    LET i == InstanceOf(th)
        rest == threads[th].todo \ {n}
    IN  /\ threads[th].pc = "refresh"
        /\ n \in threads[th].todo
        /\ cache' = IF ShouldRefresh(clients[i][n]) THEN RefreshLock(cache, i, n) ELSE cache
        /\ threads' = [threads EXCEPT ![th] =
                          IF rest = {} THEN IdleThread ELSE [@ EXCEPT !.todo = rest]]
        /\ UNCHANGED <<clients, liveSessions, startQueue, nodeTable, flushedBatches, retired, monitorLog, last_run_at>>
        /\ UNCHANGED <<ingestVars, sideVars, netThread, now>>

\* cleanup_stale_locks: the snapshot of the keys (lines 219-220)
CleanupBegin(th) ==
    LET i == InstanceOf(th) IN
    /\ threads[th].pc = "idle"
    /\ DOMAIN clients[i] # {}
    /\ threads' = [threads EXCEPT ![th] =
                      [pc |-> "cleanup", node |-> 0, todo |-> DOMAIN clients[i],
                       retries |-> 0]]
    /\ UNCHANGED <<cache, clients, liveSessions, startQueue, nodeTable, flushedBatches, retired, monitorLog, last_run_at>>
    /\ UNCHANGED <<ingestVars, sideVars, netThread, now>>

\* cleanup_stale_locks: one iteration (lines 222-231): get_client, is_healthy, stop_node
CleanupOne(th, n) ==
    LET i == InstanceOf(th)
        rest == threads[th].todo \ {n}
        after == [threads EXCEPT ![th] =
                     IF rest = {} THEN IdleThread ELSE [@ EXCEPT !.todo = rest]]
    IN  /\ threads[th].pc = "cleanup"
        /\ n \in threads[th].todo
        /\ IF n \in DOMAIN clients[i] /\ ~is_healthy(clients[i][n], now)
           THEN /\ StopNodeInternal(i, n, "cleanup_stale_locks")
                /\ cache' = ReleaseLock(cache, n)
                /\ threads' = ForgetSnapshot(after, i, n)
           ELSE /\ threads' = after
                /\ UNCHANGED <<cache, clients, liveSessions, flushedBatches, retired>>
        /\ UNCHANGED <<startQueue, nodeTable, monitorLog, last_run_at>>
        /\ UNCHANGED <<ingestVars, sideVars, netThread, now>>

\* monitor_all_active_nodes line 118 reads node.lock_key; WIS2Node
\* (core/models.py 15-148) defines no such attribute, so the read raises
\* AttributeError, which the except clause at line 134 logs.
\* A WIS2Node that does define lock_key.
NodeDefinesLockKey == TRUE

NodeHasLockKey == FALSE

\* monitor_all_active_nodes without the lock check of lines 120-122.
NodesToStartIgnoringLocks(table, locks) ==
    {n \in Nodes : table[n].exists /\ table[n].status = "active"}

\* monitor_all_active_nodes: the nodes a start task is published for
NodesToStart(table, locks) ==
    LET active == {n \in Nodes : table[n].exists /\ table[n].status = "active"}
    IN  IF active # {} /\ ~NodeHasLockKey
        THEN {}
        ELSE {n \in active : locks[n] = NoLock}

\* monitor_all_active_nodes: the line it logs last (lines 129-135)
MonitorLogLine(table, locks) ==
    LET active == {n \in Nodes : table[n].exists /\ table[n].status = "active"}
    IN  IF active # {} /\ ~NodeHasLockKey THEN "error"
        ELSE IF NodesToStart(table, locks) # {} THEN "started"
        ELSE "all_monitored"

MonitorAllActive(th) ==
    /\ threads[th].pc = "idle"
    /\ startQueue' = startQueue \cup
           {[node |-> n, retries |-> 0] : n \in NodesToStart(nodeTable, cache)}
    /\ monitorLog' = MonitorLogLine(nodeTable, cache)
    /\ last_run_at' = [last_run_at EXCEPT !.monitor = now]
    /\ UNCHANGED <<cache, clients, liveSessions, threads, nodeTable, flushedBatches, retired>>
    /\ UNCHANGED <<ingestVars, sideVars, netThread, now>>

\* ws/consumers.py start_node: start_mqtt_monitoring.delay(node_id)
RequestStart(n) ==
    /\ [node |-> n, retries |-> 0] \notin startQueue
    /\ startQueue' = startQueue \cup {[node |-> n, retries |-> 0]}
    /\ UNCHANGED <<cache, clients, liveSessions, threads, nodeTable, flushedBatches, retired, monitorLog, last_run_at>>
    /\ UNCHANGED <<ingestVars, sideVars, netThread, now>>

\* The broker answers the CONNECT of a client in the map: _on_connect(rc)
BrokerConnAck(i, n, rc) ==
    /\ n \in DOMAIN clients[i]
    /\ clients[i][n].session = "connecting"
    /\ rc = 0 \/ clients[i][n].error_count < MaxErrors
    /\ clients' = [clients EXCEPT ![i][n] = OnConnect(@, rc, now)]
    /\ UNCHANGED <<cache, liveSessions, threads, startQueue, nodeTable, flushedBatches, retired, monitorLog, last_run_at>>
    /\ UNCHANGED <<ingestVars, sideVars, netThread, now>>

\* The connection is lost, or closed after a refusal: _on_disconnect(rc)
BrokerDrop(i, n, rc) ==
    /\ n \in DOMAIN clients[i]
    /\ clients[i][n].session \in {"up", "refused"}
    /\ clients[i][n].error_count < MaxErrors
    /\ clients' = [clients EXCEPT ![i][n] = OnDisconnect(@, rc, now)]
    /\ UNCHANGED <<cache, liveSessions, threads, startQueue, nodeTable, flushedBatches, retired, monitorLog, last_run_at>>
    /\ UNCHANGED <<ingestVars, sideVars, netThread, now>>

\* get_health_report lines 235-240: the empty report; returned: the call is over.
NoReport ==
    [total_nodes |-> 0, healthy_nodes |-> 0, unhealthy_nodes |-> 0, nodes |-> <<>>,
     returned |-> FALSE]

\* get_health_report lines 235-245: the empty report, the snapshot of the keys
\* under the mutex, total_nodes.
HealthReportBegin(th) ==
    LET i == InstanceOf(th)
        node_ids == DOMAIN clients[i]
    IN  /\ threads[th].pc = "idle"
        /\ report' = [NoReport EXCEPT !.total_nodes = Cardinality(node_ids),
                                      !.returned = node_ids = {}]
        /\ threads' = [threads EXCEPT ![th] =
                          IF node_ids = {} THEN IdleThread
                          ELSE [pc |-> "health", node |-> 0, todo |-> node_ids,
                                retries |-> 0]]
        /\ UNCHANGED <<cache, clients, liveSessions, startQueue, nodeTable, flushedBatches,
                       retired, monitorLog, last_run_at, netThread, now>>
        /\ UNCHANGED <<ingestVars, cliClients, activeTopics, locals, outage>>

\* get_health_report lines 247-261 for one node: get_client and, when there is a
\* client, its entry (the stats are left out) and the count of its verdict.
HealthReportEntry(r, cl, n, t) ==
    IF n \notin DOMAIN cl THEN r
    ELSE LET healthy == is_healthy(cl[n], t)
         IN  [r EXCEPT !.nodes = Put(@, n, [healthy |-> healthy]),
                       !.healthy_nodes = IF healthy THEN @ + 1 ELSE @,
                       !.unhealthy_nodes = IF healthy THEN @ ELSE @ + 1]

\* get_health_report: one iteration of the loop; after the last one the report
\* is returned (line 263).
HealthReportOne(th, n) ==
    LET i == InstanceOf(th)
        rest == threads[th].todo \ {n}
    IN  /\ threads[th].pc = "health"
        /\ n \in threads[th].todo
        /\ report' = [HealthReportEntry(report, clients[i], n, now)
                          EXCEPT !.returned = rest = {}]
        /\ threads' = [threads EXCEPT ![th] =
                          IF rest = {} THEN IdleThread ELSE [@ EXCEPT !.todo = rest]]
        /\ UNCHANGED <<cache, clients, liveSessions, startQueue, nodeTable, flushedBatches,
                       retired, monitorLog, last_run_at, netThread, now>>
        /\ UNCHANGED <<ingestVars, cliClients, activeTopics, locals, outage>>

\* The lock entry's timeout (LOCK_TIMEOUT) runs out.
TtlExpire(n) ==
    /\ cache[n] # NoLock
    /\ cache' = [cache EXCEPT ![n] = NoLock]
    /\ UNCHANGED <<clients, liveSessions, threads, startQueue, nodeTable, flushedBatches, retired, monitorLog, last_run_at>>
    /\ UNCHANGED <<ingestVars, sideVars, netThread, now>>

(***************************************************************************)
(* Specifications                                                          *)
(***************************************************************************)
IdleIngest ==
    /\ observations = {}
    /\ nextRowId = 1
    /\ stationTable = InitialStations
    /\ celeryTasks = {}
    /\ taskSeq = 0
    /\ workerTask = [w \in Workers |-> NoRecord]
    /\ prepareLog = [kind |-> "none", items |-> <<>>, stored |-> FALSE]

IdleSup ==
    /\ cache = [n \in Nodes |-> NoLock]
    /\ clients = [i \in Instances |-> <<>>]
    /\ liveSessions = [i \in Instances |-> [n \in Nodes |-> 0]]
    /\ threads = [th \in ThreadIds |-> IdleThread]
    /\ startQueue = {}
    /\ flushedBatches = <<>>
    /\ retired = NoSummary
    /\ monitorLog = "none"
    /\ last_run_at = [refresh |-> 0, monitor |-> 0]
    /\ netThread = IdleNet
    /\ now = 0
    /\ cliClients = {}
    /\ activeTopics = InitialTopics
    /\ locals = IdleLocals
    /\ outage = NoOutage
    /\ report = NoReport

InitIngest ==
    /\ IdleIngest
    /\ IdleSup
    /\ nodeTable = [n \in Nodes |-> CHOOSE cfg \in NodeConfigs : cfg.status = "active" /\ cfg.host # ""]

\* No lookup raises a database error.
NoneRaises == [k \in 1..MaxBatchLen |-> FALSE]

NextIngest ==
    \/ \E b \in Batches : PublishBatch(b)
    \/ \E p \in Payloads : PublishSingle(p)
    \/ \E t \in celeryTasks : \E ok \in [1..MaxBatchLen -> BOOLEAN] : \E e \in BOOLEAN :
           ProcessMqttMessageBatch(t, ok, NoneRaises, e)
    \/ \E w \in Workers : \E t \in celeryTasks : \E ok \in BOOLEAN :
           ProcessMqttMessageGet(w, t, ok)
    \/ \E w \in Workers : ProcessMqttMessageCreate(w)

SpecIngest == InitIngest /\ [][NextIngest]_vars

\* One published task, batch or single, run (and retried) by the workers.
FirstTasks ==
    {[seq |-> 1, kind |-> "batch", batch |-> b, retries |-> 0] :
         b \in BatchesOf(Payloads \cup UndatedPayloads)}
        \cup {[seq |-> 1, kind |-> "single", batch |-> <<p>>, retries |-> 0] :
                  p \in Payloads \cup UndatedPayloads}

InitOneTask ==
    /\ observations = {}
    /\ nextRowId = 1
    /\ stationTable = InitialStations
    /\ \E task \in FirstTasks : celeryTasks = {task}
    /\ taskSeq = 1
    /\ workerTask = [w \in Workers |-> NoRecord]
    /\ prepareLog = [kind |-> "none", items |-> <<>>, stored |-> FALSE]
    /\ IdleSup
    /\ nodeTable = [n \in Nodes |-> CHOOSE cfg \in NodeConfigs : cfg.status = "active" /\ cfg.host # ""]

NextOneTask ==
    \/ \E t \in celeryTasks : \E ok, raises \in [1..MaxBatchLen -> BOOLEAN] :
           \E e \in BOOLEAN : ProcessMqttMessageBatch(t, ok, raises, e)
    \/ \E w \in Workers : \E t \in celeryTasks : \E ok \in BOOLEAN :
           ProcessMqttMessageGet(w, t, ok)
    \/ \E w \in Workers : ProcessMqttMessageCreate(w)

SpecOneTask == InitOneTask /\ [][NextOneTask]_vars

\* Two supervisor instances, one worker thread each; jobs run at any time.
SupThreads == {"A1", "B1"}

InitSup ==
    /\ IdleIngest
    /\ IdleSup
    /\ nodeTable \in [Nodes -> NodeConfigs]

SupStep(th) ==
    \/ \E task \in startQueue : StartTask(th, task)
    \/ StartClients(th)
    \/ \E n \in Nodes : StopNode(th, n)
    \/ \E n \in Nodes : RestartStop(th, n)
    \/ RestartStart(th)
    \/ RefreshAllLocksBegin(th)
    \/ \E n \in Nodes : RefreshOne(th, n)
    \/ CleanupBegin(th)
    \/ \E n \in Nodes : CleanupOne(th, n)
    \/ MonitorAllActive(th)

Environment ==
    \/ \E n \in Nodes : RequestStart(n)
    \/ \E i \in Instances : \E n \in Nodes : \E rc \in ReasonCodes : BrokerConnAck(i, n, rc)
    \/ \E i \in Instances : \E n \in Nodes : \E rc \in ReasonCodes : BrokerDrop(i, n, rc)

NextSup ==
    \/ \E th \in SupThreads : SupStep(th)
    \/ Environment
    \/ \E n \in Nodes : TtlExpire(n)

SpecSup == InitSup /\ [][NextSup]_vars

\* One supervisor instance, two worker threads calling into it concurrently.
ConcThreads == {"A1", "A2"}

NextConc ==
    \/ \E th \in ConcThreads : SupStep(th)
    \/ Environment
    \/ \E n \in Nodes : TtlExpire(n)

SpecConc == InitSup /\ [][NextConc]_vars

\* One supervisor instance: a thread in get_health_report while another one
\* starts and stops nodes and cleans up.
NextHealth ==
    \/ HealthReportBegin("A1")
    \/ \E n \in Nodes : HealthReportOne("A1", n)
    \/ \E task \in startQueue : StartTask("A2", task)
    \/ StartClients("A2")
    \/ \E n \in Nodes : StopNode("A2", n)
    \/ CleanupBegin("A2")
    \/ \E n \in Nodes : CleanupOne("A2", n)
    \/ Environment

SpecHealth == InitSup /\ [][NextHealth]_vars

(***************************************************************************)
(* The periodic jobs on their schedule.  Instance A runs refresh_locks,    *)
(* instance B runs monitor_all_active; the clock advances a minute at a    *)
(* time and never past a job that is due.                                  *)
(***************************************************************************)
MaxNow == 1200       \* seconds the clock runs in SpecSched

REFRESH_PERIOD == 240
MONITOR_PERIOD == 300
Minute == MONITOR_PERIOD \div 5

\* The cache drops an entry when its timeout has run out.
Age(locks, d) ==
    [n \in Nodes |->
        IF locks[n] = NoLock \/ locks[n].ttl <= d THEN NoLock
        ELSE [locks[n] EXCEPT !.ttl = @ - d]]

RefreshDue == now - last_run_at.refresh >= REFRESH_PERIOD
MonitorDue == now - last_run_at.monitor >= MONITOR_PERIOD

SchedRefresh == RefreshDue /\ RefreshAllLocksBegin("A1")

SchedMonitor == MonitorDue /\ MonitorAllActive("B1")

\* The dashboard asks for the node once, before anybody holds its lock.
SchedRequestStart(n) == now = 0 /\ cache[n] = NoLock /\ RequestStart(n)

Tick ==
    /\ now < MaxNow
    /\ ~RefreshDue /\ ~MonitorDue
    /\ \A th \in ThreadIds : threads[th].pc # "refresh"
    /\ now' = now + Minute
    /\ cache' = Age(cache, Minute)
    /\ UNCHANGED <<clients, liveSessions, threads, startQueue, nodeTable, flushedBatches,
                   retired, monitorLog, last_run_at, netThread>>
    /\ UNCHANGED <<ingestVars, sideVars>>

InitSched ==
    /\ IdleIngest
    /\ IdleSup
    /\ nodeTable = [n \in Nodes |-> CHOOSE cfg \in NodeConfigs : cfg.status = "active" /\ cfg.host # ""]

NextSched ==
    \/ \E n \in Nodes : SchedRequestStart(n)
    \/ \E th \in SupThreads : \E task \in startQueue : StartTask(th, task)
    \/ \E th \in SupThreads : StartClients(th)
    \/ SchedRefresh
    \/ \E n \in Nodes : RefreshOne("A1", n)
    \/ SchedMonitor
    \/ \E i \in Instances : \E n \in Nodes : \E rc \in ReasonCodes : BrokerConnAck(i, n, rc)
    \/ \E i \in Instances : \E n \in Nodes : \E rc \in ReasonCodes : BrokerDrop(i, n, rc)
    \/ Tick

SpecSched == InitSched /\ [][NextSched]_vars

(***************************************************************************)
(* One client of instance A, step by step: the worker thread inside        *)
(* stop_node -> disconnect() against paho's network thread running the     *)
(* callbacks.  The client stays in the map until disconnect() has returned.*)
(***************************************************************************)
MaxClientNow == 10       \* seconds the clock runs in SpecClient
MaxClientErrors == 2     \* errors one client object counts in SpecClient
MaxMessages == 2         \* messages one client object receives
MaxFlushes == 2          \* batches handed over before the broker goes quiet

BATCH_SIZE == 50
BATCH_TIMEOUT == 5

\* What arrives on a subscribed topic: a JSON document or something else.
ClientMessages == {"m1", "{not json"}

TheClient == clients["A"][TheNode]

MESSAGE_RATE_WINDOW == 60
MAX_MESSAGE_TIMES_STORED == 1000

\* times[-n:]
LastN(times, n) ==
    IF Len(times) <= n THEN times ELSE SubSeq(times, Len(times) - n + 1, Len(times))

\* _on_message line 226 alone.
AppendMessageTime(times, t) == Append(times, t)

\* _on_message lines 226-231: append, keep the last MAX_MESSAGE_TIMES_STORED, drop
\* what is not newer than the cutoff.
UpdateMessageTimes(times, t) ==
    LET cutoff_time == t - MESSAGE_RATE_WINDOW
        Newer(x) == x > cutoff_time
    IN  SelectSeq(LastN(Append(times, t), MAX_MESSAGE_TIMES_STORED), Newer)

\* _on_message lines 221-232, under the client's lock.
OnMessageMetrics(c, t) ==
    LET times == UpdateMessageTimes(c.message_times, t)
    IN  [c EXCEPT !.message_count = @ + 1, !.last_message_time = t,
                  !.message_times = times, !.messages_per_minute = Len(times)]

\* _on_message up to the flush: counters, json.loads, the buffer and the
\* flush conditions (lines 218-261).
OnMessage(c, m, t) ==
    LET c1 == OnMessageMetrics(c, t)
        c2 == [c1 EXCEPT !.message_buffer = Append(@, m)]
        should_flush == \/ Len(c2.message_buffer) >= BATCH_SIZE
                        \/ t - c2.last_batch_flush >= BATCH_TIMEOUT
    IN  IF m = "{not json"
        THEN [client |-> [c1 EXCEPT !.error_count = @ + 1], batch |-> <<>>]
        ELSE IF should_flush THEN FlushBuffer(c2, t)
        ELSE [client |-> c2, batch |-> <<>>]

NetIdle == netThread.pc = "idle" /\ Running("A", TheNode) /\ TheClient.session # "none"

ClientFrame ==
    /\ UNCHANGED <<cache, liveSessions, startQueue, nodeTable, retired, monitorLog,
                   last_run_at, now>>
    /\ UNCHANGED <<ingestVars, sideVars>>

\* _flush_buffer lines 207-214: process_mqtt_message_batch.delay(batch); when it
\* raises (queued = FALSE) the error is logged and the batch is gone.
Delay(batches, batch, queued) ==
    IF batch = <<>> \/ ~queued THEN batches ELSE Append(batches, batch)

NetMessage(m, queued) ==
    /\ NetIdle
    /\ TheClient.session = "up"
    /\ TheClient.message_count < MaxMessages
    /\ TheClient.error_count < MaxClientErrors
    /\ Len(flushedBatches) < MaxFlushes
    /\ LET r == OnMessage(TheClient, m, now)
       IN  /\ clients' = [clients EXCEPT !["A"][TheNode] = r.client]
           /\ flushedBatches' = Delay(flushedBatches, r.batch, queued)
    /\ UNCHANGED <<threads, netThread>>
    /\ ClientFrame

NetConnAck(rc) ==
    /\ NetIdle
    /\ TheClient.session = "connecting"
    /\ rc = 0 \/ TheClient.error_count < MaxClientErrors
    /\ clients' = [clients EXCEPT !["A"][TheNode] = OnConnect(@, rc, now)]
    /\ UNCHANGED <<threads, netThread, flushedBatches>>
    /\ ClientFrame

\* _on_disconnect up to the read of self.state at line 185
NetDropBegin(rc) ==
    /\ NetIdle
    /\ TheClient.session \in {"up", "refused"}
    /\ TheClient.error_count < MaxClientErrors
    /\ clients' = [clients EXCEPT !["A"][TheNode] = OnDisconnectFlags(@)]
    /\ netThread' = [pc |-> "on_disconnect", rc |-> rc,
                     stopping |-> TheClient.state = "stopping"]
    /\ UNCHANGED <<threads, flushedBatches>>
    /\ ClientFrame

\* _on_disconnect from line 186 on: the _change_state
NetDropEnd ==
    /\ netThread.pc = "on_disconnect"
    /\ clients' = [clients EXCEPT !["A"][TheNode] =
                      OnDisconnectChange(@, netThread.stopping, netThread.rc, now)]
    /\ netThread' = IdleNet
    /\ UNCHANGED <<threads, flushedBatches>>
    /\ ClientFrame

\* stop_node -> _stop_node_internal -> disconnect(): _flush_buffer (line 427)
StopFlush(queued) ==
    /\ threads["A1"].pc = "idle"
    /\ Running("A", TheNode)
    /\ LET r == FlushBuffer(TheClient, now)
       IN  /\ clients' = [clients EXCEPT !["A"][TheNode] = r.client]
           /\ flushedBatches' = Delay(flushedBatches, r.batch, queued)
    /\ threads' = [threads EXCEPT !["A1"] = [IdleThread EXCEPT !.pc = "stop_flushed",
                                                             !.node = TheNode]]
    /\ UNCHANGED netThread
    /\ ClientFrame

\* disconnect(): _change_state(STOPPING) (line 429)
StopStopping ==
    /\ threads["A1"].pc = "stop_flushed"
    /\ clients' = [clients EXCEPT !["A"][TheNode] = ChangeState(@, "stopping", None, now)]
    /\ threads' = [threads EXCEPT !["A1"].pc = "stop_stopping"]
    /\ UNCHANGED <<netThread, flushedBatches>>
    /\ ClientFrame

\* disconnect() from loop_stop on (lines 433-440; loop_stop joins the network
\* thread), then the del and the _release_lock of stop_node
StopClose ==
    /\ threads["A1"].pc = "stop_stopping"
    /\ netThread.pc = "idle"
    /\ LET c == ChangeState(CloseSession(TheClient), "disconnected", None, now)
       IN  retired' = Summary(c, "stop_node")
    /\ clients' = [clients EXCEPT !["A"] = Del(@, TheNode)]
    /\ liveSessions' = [liveSessions EXCEPT !["A"][TheNode] =
                           IF TheClient.session # "none" THEN @ - 1 ELSE @]
    /\ cache' = ReleaseLock(cache, TheNode)
    /\ threads' = [threads EXCEPT !["A1"] = IdleThread]
    /\ UNCHANGED <<startQueue, nodeTable, flushedBatches, monitorLog, last_run_at,
                   netThread, now>>
    /\ UNCHANGED <<ingestVars, sideVars>>

\* start_node is asked for once: the specification follows one client object
ClientRequestStart ==
    /\ ~Running("A", TheNode)
    /\ retired = NoSummary
    /\ threads["A1"].pc = "idle"
    /\ RequestStart(TheNode)

ClientTick ==
    /\ now < MaxClientNow
    /\ now' = now + BATCH_TIMEOUT
    /\ cache' = Age(cache, BATCH_TIMEOUT)
    /\ UNCHANGED <<clients, liveSessions, threads, startQueue, nodeTable, flushedBatches,
                   retired, monitorLog, last_run_at, netThread>>
    /\ UNCHANGED <<ingestVars, sideVars>>

InitClient ==
    /\ IdleIngest
    /\ IdleSup
    /\ nodeTable \in [Nodes -> {cfg \in NodeConfigs : cfg.status = "active"}]

NextClient ==
    \/ ClientRequestStart
    \/ \E task \in startQueue : StartTask("A1", task)
    \/ StartClients("A1")
    \/ \E m \in ClientMessages : \E queued \in BOOLEAN : NetMessage(m, queued)
    \/ \E rc \in ReasonCodes : NetConnAck(rc)
    \/ \E rc \in ReasonCodes : NetDropBegin(rc)
    \/ NetDropEnd
    \/ \E queued \in BOOLEAN : StopFlush(queued)
    \/ StopStopping
    \/ StopClose
    \/ ClientTick

SpecClient == InitClient /\ [][NextClient]_vars

(***************************************************************************)
(* The mqtt_monitor management command: core/management/commands/          *)
(* mqtt_monitor.py drives the MQTTMonitoringService of core/mqtt_client.py *)
(* in its own process, next to one supervisor instance run by Celery.      *)
(***************************************************************************)
\* core/mqtt_client.py start_node (lines 521-558): the WIS2Node lookup, the
\* "already running" return, WIS2MQTTClient.start().
LegacyStartNode(cl, n, table) ==
    IF ~table[n].exists THEN cl
    ELSE IF n \in cl THEN cl
    ELSE IF table[n].host # "" THEN cl \cup {n}
    ELSE cl

\* core/mqtt_client.py stop_node (lines 560-583)
LegacyStopNode(cl, n) == cl \ {n}

\* core/mqtt_client.py start_all (lines 503-519)
LegacyStartAll(cl, table) ==
    cl \cup {n \in Nodes : table[n].exists /\ table[n].status = "active" /\ table[n].host # ""}

CliFrame ==
    /\ UNCHANGED <<cache, clients, liveSessions, threads, startQueue, nodeTable,
                   flushedBatches, retired, monitorLog, last_run_at, netThread, now>>
    /\ UNCHANGED <<ingestVars, activeTopics, locals, outage, report>>

\* mqtt_monitor start --node-id n
HandleStart(n) ==
    /\ nodeTable[n].exists
    /\ cliClients' = LegacyStartNode(cliClients, n, nodeTable)
    /\ CliFrame

\* mqtt_monitor stop --node-id n
HandleStop(n) ==
    /\ cliClients' = LegacyStopNode(cliClients, n)
    /\ CliFrame

\* mqtt_monitor restart --node-id n
HandleRestart(n) ==
    /\ nodeTable[n].exists
    /\ cliClients' = LegacyStartNode(LegacyStopNode(cliClients, n), n, nodeTable)
    /\ CliFrame

\* mqtt_monitor start-all
HandleStartAll ==
    /\ \E n \in Nodes :
           nodeTable[n].exists /\ nodeTable[n].status = "active" /\ nodeTable[n].host # ""
    /\ cliClients' = LegacyStartAll(cliClients, nodeTable)
    /\ CliFrame

NextCli ==
    \/ \E n \in Nodes : RequestStart(n)
    \/ \E task \in startQueue : StartTask("A1", task)
    \/ StartClients("A1")
    \/ \E n \in Nodes : StopNode("A1", n)
    \/ \E n \in Nodes : \E rc \in ReasonCodes : BrokerConnAck("A", n, rc)
    \/ \E n \in Nodes : \E rc \in ReasonCodes : BrokerDrop("A", n, rc)
    \/ \E n \in Nodes : HandleStart(n)
    \/ \E n \in Nodes : HandleStop(n)
    \/ \E n \in Nodes : HandleRestart(n)
    \/ HandleStartAll

SpecCli == InitSup /\ [][NextCli]_vars

(***************************************************************************)
(* The catalogue changing under a running client: core/sync.py             *)
(* sync_discovery_metadata rewrites the node's Dataset rows while one      *)
(* supervisor instance starts, stops and restarts the node's client.       *)
(***************************************************************************)
\* sync_discovery_metadata lines 60-137: every dataset the endpoint lists is
\* created or updated with status 'active', every other active dataset of the
\* node is marked 'deleted'.
SyncDiscoveryMetadata(listed) ==
    /\ activeTopics' = listed
    /\ UNCHANGED <<cache, clients, liveSessions, threads, startQueue, nodeTable,
                   flushedBatches, retired, monitorLog, last_run_at, netThread, now>>
    /\ UNCHANGED <<ingestVars, cliClients, locals, outage, report>>

\* client.subscribe(topic, qos=1) for topic in self.topics, on every successful
\* _on_connect (client.py:151-156): what a connected client is subscribed to.
Subscriptions(c) == IF c.session = "up" THEN c.topics ELSE {}

MaxTopicsNow == 2        \* seconds the clock runs in SpecTopics

\* One second passes.
TopicsTick ==
    /\ now < MaxTopicsNow
    /\ now' = now + 1
    /\ cache' = Age(cache, 1)
    /\ UNCHANGED <<clients, liveSessions, threads, startQueue, nodeTable, flushedBatches,
                   retired, monitorLog, last_run_at, netThread>>
    /\ UNCHANGED <<ingestVars, sideVars>>

InitTopics ==
    /\ IdleIngest
    /\ IdleSup
    /\ nodeTable = [n \in Nodes |-> CHOOSE cfg \in NodeConfigs : cfg.status = "active" /\ cfg.host # ""]

NextTopics ==
    \/ \E n \in Nodes : RequestStart(n)
    \/ \E task \in startQueue : StartTask("A1", task)
    \/ StartClients("A1")
    \/ \E n \in Nodes : StopNode("A1", n)
    \/ \E n \in Nodes : RestartStop("A1", n)
    \/ RestartStart("A1")
    \/ \E n \in Nodes : \E rc \in ReasonCodes : BrokerConnAck("A", n, rc)
    \/ \E n \in Nodes : \E rc \in ReasonCodes : BrokerDrop("A", n, rc)
    \/ \E listed \in SUBSET Topics : SyncDiscoveryMetadata(listed)
    \/ TopicsTick

SpecTopics == InitTopics /\ [][NextTopics]_vars

(***************************************************************************)
(* One client object from connect() on, against every reason code the     *)
(* broker may answer with.  start_node holds the node's lock and has built *)
(* the object (service.py:115-123); clients["A"] holds it from the call of *)
(* connect() on, also while start_node is about to drop it after a failed  *)
(* call.                                                                   *)
(***************************************************************************)
MaxReasonCode == 6       \* CONNACK reason codes 0..MaxReasonCode
AckCodes == 0..MaxReasonCode
ConnectHosts == {"broker.example", ""}

\* start_node line 128: client.connect()
ConnectCall(host) ==
    /\ ~Running("A", TheNode)
    /\ threads["A1"].pc = "idle"
    /\ cache[TheNode] # NoLock /\ cache[TheNode].owner = "A"
    /\ LET new == Connect(NewClient(TheNode, now, activeTopics), host, now)
       IN  /\ clients' = [clients EXCEPT !["A"] = Put(@, TheNode, new.client)]
           /\ liveSessions' = [liveSessions EXCEPT !["A"][TheNode] =
                                  IF new.ok THEN @ + 1 ELSE @]
           /\ threads' = [threads EXCEPT !["A1"].pc =
                              IF new.ok THEN "idle" ELSE "connect_failed"]
    /\ UNCHANGED <<cache, startQueue, nodeTable, flushedBatches, retired, monitorLog,
                   last_run_at, netThread, now>>
    /\ UNCHANGED <<ingestVars, sideVars>>

\* start_node lines 133-136: connect() returned False
ConnectFailedReturn ==
    /\ threads["A1"].pc = "connect_failed"
    /\ clients' = [clients EXCEPT !["A"] = Del(@, TheNode)]
    /\ cache' = ReleaseLock(cache, TheNode)
    /\ threads' = [threads EXCEPT !["A1"] = IdleThread]
    /\ UNCHANGED <<liveSessions, startQueue, nodeTable, flushedBatches, retired,
                   monitorLog, last_run_at, netThread, now>>
    /\ UNCHANGED <<ingestVars, sideVars>>

InitConnect ==
    /\ IdleIngest
    /\ clients = [i \in Instances |-> <<>>]
    /\ liveSessions = [i \in Instances |-> [n \in Nodes |-> 0]]
    /\ threads = [th \in ThreadIds |-> IdleThread]
    /\ startQueue = {}
    /\ flushedBatches = <<>>
    /\ retired = NoSummary
    /\ monitorLog = "none"
    /\ last_run_at = [refresh |-> 0, monitor |-> 0]
    /\ netThread = IdleNet
    /\ now = 0
    /\ cliClients = {}
    /\ activeTopics = InitialTopics
    /\ locals = IdleLocals
    /\ outage = NoOutage
    /\ report = NoReport
    /\ nodeTable = [n \in Nodes |->
                        [exists |-> TRUE, status |-> "active", host |-> "broker.example"]]
    /\ cache = [n \in Nodes |-> [owner |-> "A", ttl |-> LOCK_TIMEOUT]]

NextConnect ==
    \/ \E host \in ConnectHosts : ConnectCall(host)
    \/ ConnectFailedReturn
    \/ \E rc \in AckCodes : NetConnAck(rc)
    \/ \E rc \in ReasonCodes : NetDropBegin(rc)
    \/ NetDropEnd
    \/ TopicsTick

SpecConnect == InitConnect /\ [][NextConnect]_vars

(***************************************************************************)
(* The message-rate window of one connected client under a burst: the      *)
(* client has already taken a burst of undecodable messages within one     *)
(* second, which fills _message_times close to MAX_MESSAGE_TIMES_STORED;   *)
(* more messages then arrive while the clock moves on.                     *)
(***************************************************************************)
MaxRateMessages == 3     \* messages short of, and past, a full window
MaxRateNow == 90         \* seconds the clock runs in SpecRate

RingFills == (MAX_MESSAGE_TIMES_STORED - MaxRateMessages)..MAX_MESSAGE_TIMES_STORED
RateSteps == {MESSAGE_RATE_WINDOW \div 2, MESSAGE_RATE_WINDOW}

\* A client connected at time 0 that has received n undecodable messages since.
BurstClient(n) ==
    LET c == OnConnect(Connect(NewClient(TheNode, 0, InitialTopics), "broker.example", 0).client, 0, 0)
    IN  [c EXCEPT !.message_count = n, !.last_message_time = 0, !.error_count = n,
                  !.message_times = [k \in 1..n |-> 0], !.messages_per_minute = n]

RateFrame ==
    /\ UNCHANGED <<liveSessions, threads, startQueue, nodeTable, retired, monitorLog,
                   last_run_at, netThread>>
    /\ UNCHANGED <<ingestVars, sideVars>>

RateMessage(m, queued) ==
    /\ Running("A", TheNode)
    /\ TheClient.message_count < MAX_MESSAGE_TIMES_STORED + MaxRateMessages
    /\ LET r == OnMessage(TheClient, m, now)
       IN  /\ clients' = [clients EXCEPT !["A"][TheNode] = r.client]
           /\ flushedBatches' = Delay(flushedBatches, r.batch, queued)
    /\ UNCHANGED <<cache, now>>
    /\ RateFrame

RateTick(d) ==
    /\ now + d <= MaxRateNow
    /\ now' = now + d
    /\ cache' = Age(cache, d)
    /\ UNCHANGED <<clients, flushedBatches>>
    /\ RateFrame

InitRate ==
    /\ IdleIngest
    /\ threads = [th \in ThreadIds |-> IdleThread]
    /\ startQueue = {}
    /\ flushedBatches = <<>>
    /\ retired = NoSummary
    /\ monitorLog = "none"
    /\ last_run_at = [refresh |-> 0, monitor |-> 0]
    /\ netThread = IdleNet
    /\ now = 0
    /\ cliClients = {}
    /\ activeTopics = InitialTopics
    /\ locals = IdleLocals
    /\ outage = NoOutage
    /\ report = NoReport
    /\ nodeTable = [n \in Nodes |->
                        [exists |-> TRUE, status |-> "active", host |-> "broker.example"]]
    /\ cache = [n \in Nodes |-> [owner |-> "A", ttl |-> LOCK_TIMEOUT]]
    /\ liveSessions = [i \in Instances |-> [n \in Nodes |-> IF i = "A" THEN 1 ELSE 0]]
    /\ \E n \in RingFills :
            clients = [i \in Instances |->
                          IF i = "A" THEN Put(<<>>, TheNode, BurstClient(n)) ELSE <<>>]

NextRate ==
    \/ \E m \in ClientMessages : \E queued \in BOOLEAN : RateMessage(m, queued)
    \/ \E d \in RateSteps : RateTick(d)

SpecRate == InitRate /\ [][NextRate]_vars

(***************************************************************************)
(* One connected client seen lock by lock: paho's network thread runs      *)
(* _on_message, _on_connect and _on_disconnect ("callback"), another       *)
(* thread runs disconnect() ("stop").  A step is one locked section or one *)
(* call made outside the lock.  The clock counts milliseconds.             *)
(***************************************************************************)
MaxCallbackNow == 10250      \* milliseconds the clock runs in SpecCallback
MaxCallbackMessages == 2     \* messages the client receives in SpecCallback
MaxFineNow == 750            \* the clock advances by quarter seconds up to here

WS_BROADCAST_MIN_INTERVAL_MS == 500
STATUS_UPDATE_INTERVAL == 10

Millis(seconds) == seconds * 1000

\* By how much the clock advances between two steps.
CallbackSteps == {250, Millis(BATCH_TIMEOUT)}

CallbackFrame ==
    /\ UNCHANGED <<cache, liveSessions, startQueue, nodeTable, retired, monitorLog,
                   last_run_at>>
    /\ UNCHANGED <<ingestVars, cliClients, activeTopics, outage, report>>

PcOf(th) == IF th = "callback" THEN netThread.pc ELSE threads["A1"].pc

\* The thread moves on to pc; nothing else about the threads changes.
Goto(th, pc) ==
    IF th = "callback"
    THEN netThread' = [netThread EXCEPT !.pc = pc] /\ UNCHANGED threads
    ELSE threads' = [threads EXCEPT !["A1"].pc = pc] /\ UNCHANGED netThread

\* Where a thread continues after _flush_buffer returns: _on_message line 263,
\* disconnect line 429.
AfterFlush(th) == IF th = "callback" THEN "ws" ELSE "stop_flushed"

\* _on_message lines 218-261: the counters, json.loads, the append and the flush
\* conditions.  The k-th message the client receives is buffered as k.
CallbackMessage(m) ==
    /\ NetIdle
    /\ TheClient.session = "up"
    /\ TheClient.message_count < MaxCallbackMessages
    /\ LET c1 == [TheClient EXCEPT !.message_count = @ + 1, !.last_message_time = now]
           c2 == [c1 EXCEPT !.message_buffer = Append(@, c1.message_count)]
           should_flush == \/ Len(c2.message_buffer) >= BATCH_SIZE
                           \/ now - c2.last_batch_flush >= Millis(BATCH_TIMEOUT)
       IN  IF m = "{not json"
           THEN /\ clients' = [clients EXCEPT !["A"][TheNode] =
                                  [c1 EXCEPT !.error_count = @ + 1]]
                /\ UNCHANGED <<netThread, locals>>
           ELSE /\ clients' = [clients EXCEPT !["A"][TheNode] = c2]
                /\ netThread' = [netThread EXCEPT !.pc =
                                    IF should_flush THEN "flush_check" ELSE "ws"]
                /\ locals' = [locals EXCEPT !["callback"].current_time = now]
    /\ UNCHANGED <<threads, flushedBatches, now>>
    /\ CallbackFrame

\* disconnect() is called (line 427: self._flush_buffer()).
StopBegin ==
    /\ threads["A1"].pc = "idle"
    /\ Running("A", TheNode)
    /\ retired = NoSummary
    /\ threads' = [threads EXCEPT !["A1"] = [IdleThread EXCEPT !.pc = "flush_check",
                                                             !.node = TheNode]]
    /\ UNCHANGED <<clients, netThread, flushedBatches, locals, now>>
    /\ CallbackFrame

\* _flush_buffer line 195: the test of the buffer, outside the lock.
FlushCheck(th) ==
    /\ PcOf(th) = "flush_check"
    /\ Goto(th, IF TheClient.message_buffer = <<>> THEN AfterFlush(th) ELSE "flush_swap")
    /\ UNCHANGED <<clients, flushedBatches, locals, now>>
    /\ CallbackFrame

\* _flush_buffer lines 201-205: the swap, under the lock.
FlushSwap(th) ==
    /\ PcOf(th) = "flush_swap"
    /\ locals' = [locals EXCEPT ![th].batch = TheClient.message_buffer]
    /\ clients' = [clients EXCEPT !["A"][TheNode] =
                      [@ EXCEPT !.message_buffer = <<>>, !.last_batch_flush = now]]
    /\ Goto(th, "flush_delay")
    /\ UNCHANGED <<flushedBatches, now>>
    /\ CallbackFrame

\* _flush_buffer lines 207-214: process_mqtt_message_batch.delay(batch_to_process);
\* when it raises (queued = FALSE) the batch is gone.
FlushDelay(th, queued) ==
    /\ PcOf(th) = "flush_delay"
    /\ flushedBatches' = IF queued THEN Append(flushedBatches, locals[th].batch)
                         ELSE flushedBatches
    /\ locals' = [locals EXCEPT ![th].batch = <<>>]
    /\ Goto(th, AfterFlush(th))
    /\ UNCHANGED <<clients, now>>
    /\ CallbackFrame

\* _broadcast_message: the message_received sent to the mqtt_status group for
\* the message that arrived at current_time; a group_send that raises is logged
\* (lines 377-378).
BroadcastMessage(c, current_time) ==
    IF outage.channel THEN c ELSE [c EXCEPT !.ws_emitted = Append(@, current_time)]

\* _on_message lines 267-270 without the test of line 267.
BroadcastEveryMessage(c, current_time) ==
    [BroadcastMessage(c, current_time) EXCEPT !.last_ws_broadcast = current_time]

\* _on_message lines 265-270: the WebSocket throttle.
ThrottledBroadcast(c, current_time) ==
    LET time_since_broadcast == current_time - c.last_ws_broadcast
    IN  IF time_since_broadcast >= WS_BROADCAST_MIN_INTERVAL_MS
        THEN [BroadcastMessage(c, current_time) EXCEPT !.last_ws_broadcast = current_time]
        ELSE c

\* _on_message lines 263-274: the throttled message_received and the test of
\* the status throttle.
CallbackBroadcast ==
    /\ netThread.pc = "ws"
    /\ LET current_time == locals["callback"].current_time
           due == current_time - TheClient.last_status_update
                      > Millis(STATUS_UPDATE_INTERVAL)
       IN  /\ clients' = [clients EXCEPT !["A"][TheNode] =
                             ThrottledBroadcast(@, current_time)]
           /\ netThread' = [netThread EXCEPT !.pc = IF due THEN "status_build" ELSE "idle"]
    /\ UNCHANGED <<threads, flushedBatches, locals, now>>
    /\ CallbackFrame

\* _update_status lines 291-321, called from _on_message line 275: the snapshot,
\* under the lock.
CallbackStatusBuild ==
    /\ netThread.pc = "status_build"
    /\ locals' = [locals EXCEPT !["callback"].status_data = StatusData(TheClient)]
    /\ netThread' = [netThread EXCEPT !.pc = "status_set"]
    /\ UNCHANGED <<clients, threads, flushedBatches, now>>
    /\ CallbackFrame

\* _update_status lines 323-326, the cache.set outside the lock, and
\* _on_message lines 276-277.
CallbackStatusSet ==
    /\ netThread.pc = "status_set"
    /\ clients' = [clients EXCEPT !["A"][TheNode] =
                      [@ EXCEPT !.status_cache = IF outage.cache THEN @
                                                 ELSE locals["callback"].status_data,
                                !.last_status_update = locals["callback"].current_time]]
    /\ locals' = [locals EXCEPT !["callback"].status_data = NoStatusData]
    /\ netThread' = [netThread EXCEPT !.pc = "idle"]
    /\ UNCHANGED <<threads, flushedBatches, now>>
    /\ CallbackFrame

CallbackTick(d) ==
    /\ now + d <= MaxCallbackNow
    /\ d < 1000 => now + d <= MaxFineNow
    /\ now' = now + d
    /\ UNCHANGED <<clients, threads, netThread, flushedBatches, locals>>
    /\ CallbackFrame

\* A client that start_node connected at time 0, under this instance's lock.
InitCallback ==
    /\ IdleIngest
    /\ threads = [th \in ThreadIds |-> IdleThread]
    /\ startQueue = {}
    /\ flushedBatches = <<>>
    /\ retired = NoSummary
    /\ monitorLog = "none"
    /\ last_run_at = [refresh |-> 0, monitor |-> 0]
    /\ netThread = IdleNet
    /\ now = 0
    /\ cliClients = {}
    /\ activeTopics = InitialTopics
    /\ locals = IdleLocals
    /\ outage = NoOutage
    /\ report = NoReport
    /\ nodeTable = [n \in Nodes |->
                        [exists |-> TRUE, status |-> "active", host |-> "broker.example"]]
    /\ cache = [n \in Nodes |-> [owner |-> "A", ttl |-> LOCK_TIMEOUT]]
    /\ liveSessions = [i \in Instances |-> [n \in Nodes |-> IF i = "A" THEN 1 ELSE 0]]
    /\ clients = [i \in Instances |->
                      IF i = "A" THEN Put(<<>>, TheNode, BurstClient(0)) ELSE <<>>]

NextCallback ==
    \/ \E m \in ClientMessages : CallbackMessage(m)
    \/ \E th \in {"callback", "stop"} : FlushCheck(th)
    \/ \E th \in {"callback", "stop"} : FlushSwap(th)
    \/ \E th \in {"callback", "stop"} : \E queued \in BOOLEAN : FlushDelay(th, queued)
    \/ CallbackBroadcast
    \/ CallbackStatusBuild
    \/ CallbackStatusSet
    \/ \E rc \in ReasonCodes : NetConnAck(rc)
    \/ \E rc \in ReasonCodes : NetDropBegin(rc)
    \/ NetDropEnd
    \/ StopBegin
    \/ StopStopping
    \/ StopClose
    \/ \E d \in CallbackSteps : CallbackTick(d)

SpecCallback == InitCallback /\ [][NextCallback]_vars

(***************************************************************************)
(* The callback thread of one client while the cache backend and the       *)
(* channel layer fail and recover: cache.set and group_send raise while    *)
(* the service is down.                                                    *)
(***************************************************************************)
Services == {"cache", "channel"}

MaxFanoutMessages == 1       \* messages the client receives in SpecFanout

\* A service goes down or comes back.
ServiceChange(s) ==
    /\ outage' = [outage EXCEPT ![s] = ~@]
    /\ UNCHANGED <<ingestVars, supVarsButSide, cliClients, activeTopics, locals, report>>

NextFanout ==
    \/ \E m \in ClientMessages :
           TheClient.message_count < MaxFanoutMessages /\ CallbackMessage(m)
    \/ FlushCheck("callback")
    \/ FlushSwap("callback")
    \/ FlushDelay("callback", TRUE)
    \/ CallbackBroadcast
    \/ CallbackStatusBuild
    \/ CallbackStatusSet
    \/ \E rc \in ReasonCodes : NetConnAck(rc)
    \/ \E rc \in ReasonCodes : NetDropBegin(rc)
    \/ NetDropEnd
    \/ \E d \in CallbackSteps : CallbackTick(d)
    \/ \E s \in Services : ServiceChange(s)

SpecFanout == InitCallback /\ [][NextFanout]_vars

(***************************************************************************)
(* C1  Idempotent ingest: the observation table never holds two rows with  *)
(* the same (message_id, station), whatever batches and single messages    *)
(* are delivered, retried or processed concurrently.                       *)
(***************************************************************************)
C1_OnePerMessageAndStation ==
    \A r1, r2 \in observations :
        (r1.message_id = r2.message_id /\ r1.station = r2.station) => r1 = r2

(***************************************************************************)
(* C2  A node is owned by one supervisor instance at a time: no node has a *)
(* NodeClient in the maps of two instances.                                *)
(***************************************************************************)
C2_OneOwnerPerNode ==
    \A n \in Nodes : Cardinality({i \in Instances : Running(i, n)}) <= 1

(***************************************************************************)
(* C3  Lock exclusion: while instance A holds the lock of a node and its   *)
(* refresh job runs on schedule, a monitor_all_active run of instance B    *)
(* publishes no start task for the node and B does not enter start_node.   *)
(***************************************************************************)
HeldBy(i, n) == cache[n] # NoLock /\ cache[n].owner = i

C4_ClientHoldsLock ==
    \A i \in Instances : \A n \in Nodes : Running(i, n) => HeldBy(i, n)

(***************************************************************************)
(* C5  Within one instance at most one client with a live broker session   *)
(* exists per node: a start of a node already in the map stops the         *)
(* existing client before the new one connects.                            *)
(***************************************************************************)
C5_OneLiveSessionPerNode ==
    \A i \in Instances : \A n \in Nodes : liveSessions[i][n] <= 1

C5_ReplacedByStart ==
    \E n \in Nodes :
        /\ Running("A", n)
        /\ liveSessions["A"][n] = 1
        /\ retired.by = "start_node"

(***************************************************************************)
(* C6  Reconciliation fixed point: once monitor_all_active has run and no  *)
(* start task is pending or in progress, every eligible node (active, with *)
(* a broker host) has a NodeClient in some instance's map.                 *)
(***************************************************************************)
Eligible(n) ==
    nodeTable[n].exists /\ nodeTable[n].status = "active" /\ nodeTable[n].host # ""

Quiescent == startQueue = {} /\ \A th \in ThreadIds : threads[th].pc = "idle"

C6_ReconciliationFixedPoint ==
    [][\A th \in ThreadIds :
          (MonitorAllActive(th) /\ Quiescent')
              => \A n \in Nodes : Eligible(n) => \E i \in Instances : Running(i, n)']_vars

(***************************************************************************)
(* C7  After a stop has returned, the stopped client's message buffer is   *)
(* empty, however the stop interleaves with messages delivered on the      *)
(* network thread.                                                         *)
(***************************************************************************)
C7_StoppedBufferEmpty == retired # NoSummary => retired.buffered = 0

(***************************************************************************)
(* C8  Every change of a client's state follows one edge of the state      *)
(* machine: Disconnected-Connecting, Connecting-Connected,                 *)
(* Connecting-Error, Connected-Error, Connected-Stopping,                  *)
(* Stopping-Disconnected, Error-Connecting; no other transition occurs.    *)
(***************************************************************************)
StateMachineEdges ==
    { <<"disconnected", "connecting">>, <<"connecting", "connected">>,
      <<"connecting", "error">>, <<"connected", "error">>,
      <<"connected", "stopping">>, <<"stopping", "disconnected">>,
      <<"error", "connecting">> }

C8_FollowsStateMachine ==
    /\ \A i \in Instances : \A n \in DOMAIN clients[i] :
           <<clients[i][n].previous_state, clients[i][n].state>> \in StateMachineEdges
    /\ retired # NoSummary => <<retired.previous_state, retired.state>> \in StateMachineEdges

(***************************************************************************)
(* C9  Broker drop: a client that is Connected again after its connection  *)
(* was severed got there from Connecting (Error, then Connecting, then     *)
(* Connected).                                                             *)
(***************************************************************************)
C9_ReconnectThroughConnecting ==
    \A i \in Instances : \A n \in DOMAIN clients[i] :
        LET c == clients[i][n]
        IN  (c.state = "connected" /\ c.successful_connections >= 2 /\ c.error_count >= 1)
                => c.previous_state = "connecting"

(***************************************************************************)
(* C10  Stop is idempotent: a stop_node leaves the node out of the map,    *)
(* the lock entry absent and the stopped client Disconnected; a second     *)
(* stop_node from there changes nothing, and a second disconnect() leaves  *)
(* a client as the first did.                                              *)
(***************************************************************************)
Stopped(i, n) ==
    /\ ~Running(i, n)
    /\ cache[n] = NoLock
    /\ retired # NoSummary =>
           retired.state = "disconnected" /\ retired.session = "none" /\ ~retired.is_connected

DisconnectTwiceIsOnce(c) ==
    Summary(Disconnect(Disconnect(c, now), now), "stop_node")
        = Summary(Disconnect(c, now), "stop_node")

C10_StopIdempotent ==
    [][\A th \in ThreadIds : \A n \in Nodes :
          StopNode(th, n) =>
              /\ Stopped(InstanceOf(th), n)'
              /\ Running(InstanceOf(th), n) => DisconnectTwiceIsOnce(clients[InstanceOf(th)][n])
              /\ Stopped(InstanceOf(th), n) =>
                     UNCHANGED <<cache, clients, liveSessions, retired, flushedBatches>>]_vars

C10_StoppedAndIdle ==
    \E i \in Instances : \E n \in Nodes :
        /\ Stopped(i, n)
        /\ retired.by = "stop_node"
        /\ \A th \in ThreadIds : threads[th].pc = "idle"

(***************************************************************************)
(* C11  At-least-once persistence: a message the client decoded stays on   *)
(* its way to the Observation table; no step of the client (a flush, a     *)
(* failed enqueue, a stop) takes a decoded message out of the buffer       *)
(* without handing it to process_mqtt_message_batch.                       *)
(***************************************************************************)
RECURSIVE TotalLen(_)
RECURSIVE Concat(_)
TotalLen(batches) ==
    IF batches = <<>> THEN 0 ELSE Len(Head(batches)) + TotalLen(Tail(batches))

Buffered == IF Running("A", TheNode) THEN Len(TheClient.message_buffer) ELSE 0

OnTheirWay == Buffered + TotalLen(flushedBatches)

C11_NoDecodedMessageLost == [][OnTheirWay' >= OnTheirWay]_vars

(***************************************************************************)
(* C12  The batch buffer is flushed by its deadline: a running client's    *)
(* buffer is never non-empty more than BATCH_TIMEOUT seconds after the     *)
(* last arrival (the oldest entry is at least that old), whether or not a  *)
(* further message arrives.                                                *)
(***************************************************************************)
SinceLastArrival == now - TheClient.last_message_time

C12_FlushedByDeadline ==
    (Running("A", TheNode) /\ TheClient.message_buffer # <<>>)
        => SinceLastArrival <= BATCH_TIMEOUT

(***************************************************************************)
(* C13  Health predicate: is_healthy() is true exactly when the client's   *)
(* state is Connected and it has received no message yet or its last       *)
(* message is at most 10 minutes old; it is false for every client that is *)
(* not in Connected.                                                       *)
(***************************************************************************)
ClaimedHealthy(c, t) ==
    /\ c.state = "connected"
    /\ (c.message_count = 0 \/ t - c.last_message_time <= 600)

C13_HealthPredicate ==
    Running("A", TheNode) => (is_healthy(TheClient, now) <=> ClaimedHealthy(TheClient, now))

(***************************************************************************)
(* C14  The message-rate window is bounded: messages_per_minute never      *)
(* exceeds MAX_MESSAGE_TIMES_STORED, and _message_times never holds more   *)
(* than MAX_MESSAGE_TIMES_STORED timestamps nor one more than              *)
(* MESSAGE_RATE_WINDOW seconds older than the latest message.              *)
(***************************************************************************)
C14_RateWindowBounded ==
    Running("A", TheNode) =>
        LET c == TheClient
        IN  /\ c.messages_per_minute <= MAX_MESSAGE_TIMES_STORED
            /\ Len(c.message_times) <= MAX_MESSAGE_TIMES_STORED
            /\ \A k \in 1..Len(c.message_times) :
                   c.last_message_time - c.message_times[k] <= MESSAGE_RATE_WINDOW

\* A full window took one more message, and later lost its old timestamps.
C14_FullWindowTookMessage ==
    /\ Running("A", TheNode)
    /\ TheClient.message_count > MAX_MESSAGE_TIMES_STORED
    /\ Len(TheClient.message_times) = MAX_MESSAGE_TIMES_STORED
    /\ TheClient.message_times[1] < TheClient.last_message_time

(***************************************************************************)
(* C15  state_changed_at never goes back: whichever thread performs the    *)
(* next transition of a client (the supervisor's start and stop, the       *)
(* broker callbacks), the time it records is not earlier than the time     *)
(* recorded before.                                                        *)
(***************************************************************************)
C15_StateEnteredMonotonic ==
    [][(Running("A", TheNode) /\ Running("A", TheNode)')
          => TheClient.state_changed_at' >= TheClient.state_changed_at]_vars

\* The supervisor's stop follows, at a later time, transitions made by the
\* broker callbacks.
C15_StoppingAfterCallbacks ==
    /\ Running("A", TheNode)
    /\ TheClient.state = "stopping"
    /\ TheClient.successful_connections > 0
    /\ TheClient.state_changed_at > 0

(***************************************************************************)
(* C16  Station-miss recovery: when a message's station is not in the      *)
(* Station table, one processing of the message calls sync_metadata once   *)
(* and looks the station up once more; if the station is there after the   *)
(* sync (and the dataset resolves and the insert goes through) the message *)
(* is persisted, otherwise no record is made of it.                        *)
(***************************************************************************)
Persisted(e) ==
    \E r \in observations : r.message_id = e.id /\ r.station = e.wigos

C17_RefreshLeavesNewOwner ==
    [][\A n \in Nodes :
          (threads["A1"].pc = "refresh" /\ HeldBy("B", n)) => ~HeldBy("A", n)']_vars

(***************************************************************************)
(* C18  refresh_all_locks extends the lock of every node that has a client *)
(* in the instance's map, whatever the client's state: once the loop of    *)
(* instance A has handled a node, the node's lock is held by A with the    *)
(* full LOCK_TIMEOUT.                                                      *)
(***************************************************************************)
RefreshHandled(n) ==
    /\ threads["A1"].pc = "refresh"
    /\ n \in threads["A1"].todo
    /\ (threads["A1"].pc' # "refresh" \/ n \notin threads["A1"].todo')

C18_RefreshTouchesEveryClient ==
    [][\A n \in Nodes :
          RefreshHandled(n) => cache'[n] = [owner |-> "A", ttl |-> LOCK_TIMEOUT]]_vars

(***************************************************************************)
(* C19  A failed start releases the lock: whenever start_node returns      *)
(* False (the node row is absent, or the client cannot be built or         *)
(* connected), the node's lock is not held by the instance afterwards.     *)
(***************************************************************************)
StartFails(th, n) ==
    \/ /\ ~nodeTable[n].exists
       /\ \E task \in startQueue : task.node = n /\ StartTask(th, task)
    \/ /\ ~nodeTable[n].exists
       /\ threads[th].node = n
       /\ RestartStart(th)
    \/ /\ threads[th].node = n
       /\ StartClients(th)
       /\ ~Running(InstanceOf(th), n)'

C19_FailedStartReleasesLock ==
    [][\A th \in SupThreads : \A n \in Nodes :
          StartFails(th, n) => ~HeldBy(InstanceOf(th), n)']_vars

\* A start that had taken the lock failed to connect: it is published again
\* and the lock is gone.
C19_FailedStartRetried ==
    \E task \in startQueue :
        /\ task.retries > 0
        /\ nodeTable[task.node].exists
        /\ cache[task.node] = NoLock
        /\ \A i \in Instances : ~Running(i, task.node)

(***************************************************************************)
(* C20  cleanup_stale_locks hands an unhealthy node back: after it stopped *)
(* the node's client and deleted its lock, the next monitor_all_active     *)
(* run publishes a start for the node (while it is still active, unlocked  *)
(* and run by nobody).                                                     *)
(***************************************************************************)
CleanedUp(n) ==
    /\ retired.by = "cleanup_stale_locks"
    /\ cache[n] = NoLock
    /\ \A i \in Instances : ~Running(i, n)
    /\ nodeTable[n].exists /\ nodeTable[n].status = "active"

C20_CleanedUpNodeRestarted ==
    [][\A th \in SupThreads : \A n \in Nodes :
          (CleanedUp(n) /\ MonitorAllActive(th))
              => \E task \in startQueue' : task.node = n]_vars

ServiceStarted(n) ==
    /\ threads["A1"].node = n
    /\ StartClients("A1")
    /\ Running("A", n)'

CommandStarted(n) == n \in cliClients' /\ n \notin cliClients

C22_StartTakesLock ==
    [][\A n \in Nodes :
          /\ ServiceStarted(n) => HeldBy("A", n)'
          /\ CommandStarted(n) => cache'[n] # NoLock]_vars

(***************************************************************************)
(* C23  A message that fails decoding adds one to error_count and is       *)
(* dropped: it is not appended to the buffer, and message_count,           *)
(* last_message_time and the rate window stay as they were.                *)
(***************************************************************************)
UndecodableArrives == \E queued \in BOOLEAN : NetMessage("{not json", queued)

C23_DecodeFailureFrame ==
    [][UndecodableArrives =>
          /\ TheClient.error_count' = TheClient.error_count + 1
          /\ TheClient.message_buffer' = TheClient.message_buffer
          /\ TheClient.message_count' = TheClient.message_count
          /\ TheClient.last_message_time' = TheClient.last_message_time
          /\ TheClient.message_times' = TheClient.message_times
          /\ TheClient.messages_per_minute' = TheClient.messages_per_minute]_vars

(***************************************************************************)
(* C24  A message whose properties.datetime is missing or cannot be parsed *)
(* is dropped by the processor: no record is built for it, so it takes no  *)
(* part in the bulk insert of its batch.                                   *)
(***************************************************************************)
C24_NoRecordWithoutDatetime ==
    \A k \in 1..Len(prepareLog.items) :
        ParseDatetime(prepareLog.items[k].datetime) = None => ~prepareLog.items[k].made

(***************************************************************************)
(* C25  In a batch, a record whose resolution fails (a required field is   *)
(* missing, the station is unknown after the sync, the dataset is unknown, *)
(* or preparing it raises) is skipped, and every other record of the batch *)
(* is inserted by the same run, provided the insert itself goes through.   *)
(***************************************************************************)
ResolutionFails(e) ==
    \/ e.id = "" \/ e.wigos = "" \/ e.metadata = ""
    \/ ~e.present
    \/ e.metadata \notin DatasetTable
    \/ e.raised

C26_ConnectedSubscribedToActive ==
    \A n \in Nodes :
        (Running("A", n) /\ clients["A"][n].state = "connected")
            => /\ clients["A"][n].session = "up"
               /\ activeTopics \subseteq Subscriptions(clients["A"][n])

(***************************************************************************)
(* C27  Batch flushes preserve insertion order: the batches a client hands *)
(* over, concatenated in the order they are handed over, list its decoded  *)
(* messages in arrival order and none of them twice, also when a flush of  *)
(* the callback thread and the flush of a stop run concurrently.           *)
(***************************************************************************)
Concat(batches) ==
    IF batches = <<>> THEN <<>> ELSE Head(batches) \o Concat(Tail(batches))

InArrivalOrder(messages) ==
    \A i, j \in 1..Len(messages) : i < j => messages[i] < messages[j]

C27_FlushesInArrivalOrder == InArrivalOrder(Concat(flushedBatches))

(***************************************************************************)
(* C28  Every state transition of a client happens in one step under its   *)
(* lock: previous_state becomes the state held just before, and a snapshot *)
(* carrying the new state goes to the status cache and to the mqtt_status  *)
(* group in that same step.                                                *)
(***************************************************************************)
StateStamp == <<TheClient.state, TheClient.previous_state, TheClient.state_changed_at>>

Transitioned ==
    /\ Running("A", TheNode)
    /\ Running("A", TheNode)'
    /\ StateStamp' # StateStamp

C28_TransitionRecorded ==
    [][Transitioned =>
          /\ TheClient.previous_state' = TheClient.state
          /\ TheClient.status_cache'.state = TheClient.state'
          /\ TheClient.status_sent'.state = TheClient.state']_vars

C28_DisconnectedWhileStopping ==
    /\ Running("A", TheNode)
    /\ TheClient.state = "disconnected"
    /\ TheClient.previous_state = "stopping"
    /\ TheClient.status_cache.state = "disconnected"
    /\ TheClient.status_sent.state = "disconnected"

(***************************************************************************)
(* C29  The status cache entry of a node holds the most recent snapshot of *)
(* its client: a snapshot built from an older state never replaces one     *)
(* that reflects a newer state, however the callback thread's throttled    *)
(* status update interleaves with state changes made by another thread.    *)
(***************************************************************************)
C29_CacheHoldsCurrentState ==
    Running("A", TheNode) => TheClient.status_cache.state = TheClient.state

HoldsMutex(th) ==
    threads[th].pc \in {"flush_check", "flush_swap", "flush_delay",
                        "stop_flushed", "stop_stopping"}

C31_LockIoOutsideMutex ==
    [][cache' # cache => \A th \in ThreadIds : ~HoldsMutex(th)]_vars

(***************************************************************************)
(* C32  stop_node is synchronous: when it has returned, whatever broker    *)
(* callbacks ran during it, the client's buffer has been flushed, its      *)
(* session is closed and it is in state disconnected.                      *)
(***************************************************************************)
C32_StopReturnsFlushedAndClosed ==
    retired.by = "stop_node" =>
        /\ retired.buffered = 0
        /\ retired.session = "none"
        /\ retired.state = "disconnected"

(***************************************************************************)
(* C33  The MQTT client identifier is unique per session: the session a    *)
(* node's client opens after a restart does not carry the identifier of    *)
(* the session that was stopped before it.                                 *)
(***************************************************************************)
C33_ClientIdUniquePerSession ==
    \A n \in Nodes :
        (Running("A", n) /\ retired # NoSummary)
            => clients["A"][n].client_id # retired.client_id

(***************************************************************************)
(* C34  Connect failure: when the broker answers a CONNECT with a non-zero *)
(* reason code, or connect() itself fails, the client enters error,        *)
(* failed_connections grows by exactly one and last_error is the text of   *)
(* the failure: the named reason for codes 1 to 5, the generic text with   *)
(* the code for any other.                                                 *)
(***************************************************************************)
ExpectedConnectError(rc) ==
    CASE rc = 1 -> "Connection refused - incorrect protocol version"
      [] rc = 2 -> "Connection refused - invalid client identifier"
      [] rc = 3 -> "Connection refused - server unavailable"
      [] rc = 4 -> "Connection refused - bad username or password"
      [] rc = 5 -> "Connection refused - not authorized"
      [] OTHER -> "Connection failed with code " \o ToString(rc)

C34_ConnectFailureRecorded ==
    [][/\ \A rc \in AckCodes \ {0} :
              NetConnAck(rc) =>
                  /\ TheClient'.state = "error"
                  /\ TheClient'.failed_connections = TheClient.failed_connections + 1
                  /\ TheClient'.last_error = ExpectedConnectError(rc)
       /\ ConnectCall("") =>
              /\ TheClient'.state = "error"
              /\ TheClient'.failed_connections = 1
              /\ TheClient'.last_error = "Configuration error: Invalid host."]_vars

\* A reconnect refused with a code that has no named reason, after an earlier
\* successful connection.
C34_UnnamedCodeRefused ==
    /\ Running("A", TheNode)
    /\ TheClient.state = "error"
    /\ TheClient.last_error = "Connection failed with code 6"
    /\ TheClient.failed_connections = 1
    /\ TheClient.successful_connections = 1

\* C35: processing a message, also one whose unknown station triggers a
\* catalogue sync that fails, never changes a node's activation status, so
\* the set of nodes monitor_all_active would start is unchanged by ingestion.
C35_IngestKeepsNodeStatus ==
    [][\A n \in Nodes : nodeTable'[n].status = nodeTable[n].status]_vars

(***************************************************************************)
(* C36  Fan-out is best-effort: while the status cache write, the status   *)
(* broadcast or the sampled-message broadcast fails, a state change still  *)
(* ends in the state it was called with and counts an error only if that   *)
(* state is the error state, and on_message still buffers and flushes the  *)
(* message, leaves the client's state alone and counts no error.           *)
(***************************************************************************)
FanoutFailing == outage.cache \/ outage.channel

\* The decoded messages received so far: handed over, being handed over, or
\* buffered.
Accounted ==
    Concat(flushedBatches) \o locals["callback"].batch \o TheClient.message_buffer

C36_FanoutFailureHarmless ==
    [][FanoutFailing /\ outage' = outage =>
          /\ TheClient.message_count' = TheClient.message_count + 1
                 /\ TheClient.error_count' = TheClient.error_count
                 => TheClient.message_buffer' =
                        Append(TheClient.message_buffer, TheClient.message_count')
          /\ TheClient.message_count' # TheClient.message_count
                 \/ netThread.pc \in {"flush_check", "flush_swap", "flush_delay", "ws",
                                      "status_build", "status_set"}
                 => /\ StateStamp' = StateStamp
                    /\ TheClient.message_count' = TheClient.message_count
                           => TheClient.error_count' = TheClient.error_count
          /\ Len(Accounted') >= Len(Accounted)
          /\ SubSeq(Accounted', 1, Len(Accounted)) = Accounted
          /\ netThread.pc' = "idle" => Len(TheClient.message_buffer') < BATCH_SIZE
          /\ (\E rc \in ReasonCodes : NetConnAck(rc)) \/ NetDropEnd
                 => /\ TheClient.state' \in {"connected", "error", "disconnected"}
                    /\ TheClient.previous_state' = TheClient.state
                    /\ TheClient.error_count' - TheClient.error_count =
                           IF TheClient.state' = "error" THEN 1 ELSE 0]_vars

\* With both services down a message was received, buffered and flushed, and
\* the throttled status update ran; nothing reached the cache or the group.
C36_FlushedDuringOutage ==
    /\ outage.cache /\ outage.channel
    /\ netThread.pc = "idle"
    /\ TheClient.state = "connected"
    /\ TheClient.message_count > 0
    /\ TheClient.error_count = 0
    /\ flushedBatches # <<>>
    /\ TheClient.last_status_update > 0
    /\ TheClient.status_cache.message_count = 0
    /\ TheClient.ws_emitted = <<>>

(***************************************************************************)
(* C37  Releasing never removes another owner's lock: stop_node on an      *)
(* instance that has no client for the node, or whose lock has since been  *)
(* taken by another instance, leaves a lock owned by a different instance  *)
(* present and unchanged.                                                  *)
(***************************************************************************)
C37_StopLeavesForeignLock ==
    [][\A th \in SupThreads : \A n \in Nodes :
          (StopNode(th, n) /\ cache[n] # NoLock /\ cache[n].owner # InstanceOf(th))
              => cache'[n] = cache[n]]_vars

(***************************************************************************)
(* C38  For every client in every reachable state, successful_connections  *)
(* plus failed_connections is at most connection_attempts, also after the  *)
(* reconnects paho performs by itself.                                     *)
(***************************************************************************)
C38_OutcomesWithinAttempts ==
    \A i \in Instances : \A n \in DOMAIN clients[i] :
        clients[i][n].successful_connections + clients[i][n].failed_connections
            <= clients[i][n].connection_attempts

(***************************************************************************)
(* C39  In every state where no operation or callback of the client is     *)
(* mid-execution, is_connected is true if and only if the state is         *)
(* connected, so is_healthy, the cached snapshot and the broadcast status  *)
(* agree on whether the client is connected.                               *)
(***************************************************************************)
NothingMidExecution ==
    /\ Running("A", TheNode)
    /\ netThread.pc = "idle"
    /\ threads["A1"].pc = "idle"

C39_FlagMatchesState ==
    NothingMidExecution =>
        /\ TheClient.is_connected <=> TheClient.state = "connected"
        /\ is_healthy(TheClient, now) => TheClient.state = "connected"
        /\ TheClient.status_cache.is_connected <=> TheClient.is_connected
        /\ TheClient.status_sent.is_connected <=> TheClient.is_connected

\* Connected again after a drop, and seen as connected on every channel.
C39_ReconnectedAfterDrop ==
    /\ NothingMidExecution
    /\ TheClient.state = "connected"
    /\ TheClient.previous_state = "error"
    /\ TheClient.is_connected
    /\ is_healthy(TheClient, now)
    /\ TheClient.status_cache.is_connected
    /\ TheClient.status_sent.is_connected

(***************************************************************************)
(* C40  get_health_report is internally consistent under concurrent stop   *)
(* and cleanup_stale_locks: in the report it returns, healthy_nodes plus   *)
(* unhealthy_nodes equals total_nodes and nodes has exactly one entry per  *)
(* counted node.                                                           *)
(***************************************************************************)
C40_HealthReportConsistent ==
    report.returned =>
        /\ report.healthy_nodes + report.unhealthy_nodes = report.total_nodes
        /\ Cardinality(DOMAIN report.nodes) = report.total_nodes

====
